---------------------------- MODULE Spec2Model ----------------------------
(***************************************************************************)
(* Pixoomat: widget layout runtime.                                        *)
(*                                                                         *)
(* The specifications below share one set of variables.                    *)
(*   Spec       the LayoutManager as a state machine: add_widget,          *)
(*              remove_widget, direct edits of z_index / visible, and the  *)
(*              read operations (get_widget_at, get_widgets_in_area,       *)
(*              get_render_data, PixoomatApp.update_display).              *)
(*   SpecSerial to_dict / from_dict / WidgetFactory.create_widget applied  *)
(*              to one widget drawn from a bounded set.                    *)
(*   SpecLoad   LayoutManager.to_dict / from_dict applied to a bounded     *)
(*              list of widgets or of serialized entries.                  *)
(*   SpecValidate  validate / validate_layout on a bounded layout.         *)
(*   SpecStopwatch StopwatchWidget read and driven over a discrete clock.  *)
(*   SpecCountdown CountdownWidget.get_render_data over target_date texts. *)
(*   SpecRegistry  PluginManager registration and directory discovery.     *)
(*   SpecApp       PixoomatApp.run / update_display against a device that  *)
(*                 may fail.                                               *)
(*   SpecRun       PixoomatApp.run from validation to return, with the     *)
(*                 signal handler running between its statements.          *)
(*   SpecWeather   WeatherService.get_weather and its fetch workers.       *)
(*   SpecRender    get_render_data and _render_widget_data for one widget. *)
(*   SpecUndo      the editor's operations with UndoManager undo / redo.   *)
(***************************************************************************)
EXTENDS Integers, Sequences, FiniteSets, TLC

VARIABLES
    widgets,     \* LayoutManager.widgets: the list of widget objects
    nextId,      \* identity of the next widget object that is constructed
    zEdited,     \* history: some z_index was assigned after its add_widget
    result,      \* what the last read operation returned (op = "none": nothing)
    serIn,       \* SpecSerial: the input widget / serialized entry
    serOut,      \* SpecSerial: the outcome of the operation applied to serIn
    loadIn,      \* SpecLoad: the input layout (widgets) or layout data (entries)
    loadOut,     \* SpecLoad: the outcome of the operation applied to loadIn
    validation,  \* SpecValidate: the widgets validated and what validation returned
    stopwatch,   \* SpecStopwatch: the clock, a StopwatchWidget and its last render
    countdown,   \* SpecCountdown: a CountdownWidget and its last render
    plugin_manager, \* SpecRegistry: a PluginManager and what its last call returned
    app,         \* SpecApp: PixoomatApp, its device and the wall clock
    proc,        \* SpecRun: PixoomatApp.run as a process, and the signal handler
    weather,     \* SpecWeather: a WeatherService, its caller and its workers
    render,      \* SpecRender: a widget and the device calls that drew it
    undo         \* SpecUndo: the editor's layout and its UndoManager

vars == <<widgets, nextId, zEdited, result, serIn, serOut, loadIn, loadOut,
          validation, stopwatch, countdown, plugin_manager, app,
          proc, weather, render, undo>>

layoutVars == <<widgets, nextId, zEdited, result>>
serialVars == <<serIn, serOut>>
loadVars == <<loadIn, loadOut>>
lateVars == <<proc, weather, render, undo>>
moreVars == <<validation, stopwatch, countdown, plugin_manager, app,
              proc, weather, render, undo>>

---------------------------------------------------------------------------
(* Bounds                                                                  *)

MaxWidgets == 2          \* widget objects constructed in one behaviour of Spec

\* z_index values of the widgets of Spec
ZValues == {0, 1}

\* Geometries of the widgets of Spec: two unit squares that share the corner
\* (1,1) and a wide strip along y = 2..3.
Rects ==
    { [x |-> 0, y |-> 0, width |-> 1, height |-> 1],
      [x |-> 1, y |-> 1, width |-> 1, height |-> 1],
      [x |-> 0, y |-> 2, width |-> 2, height |-> 1] }

\* Points probed by get_widget_at: inside the first square, the shared
\* corner, the far corner of the second square (on the strip's top edge), the
\* strip's far corner, and two points outside every geometry.
Points == { <<0, 0>>, <<1, 1>>, <<2, 2>>, <<2, 3>>, <<3, 0>>, <<2, 0>> }

\* Areas probed by get_widgets_in_area.
Areas ==
    { [x |-> 0, y |-> 0, width |-> 0, height |-> 0],
      [x |-> 2, y |-> 0, width |-> 1, height |-> 1],
      [x |-> 2, y |-> 2, width |-> 1, height |-> 1] }

None == 0                \* Python None where a widget identity is expected

---------------------------------------------------------------------------
(* BaseWidget geometry                                                     *)

\* BaseWidget.bounds: (x, y, x+width, y+height)
bounds(w) == <<w.x, w.y, w.x + w.width, w.y + w.height>>

contains_point_exclusive(w, px, py) ==
    /\ w.x <= px /\ px < w.x + w.width
    /\ w.y <= py /\ py < w.y + w.height

\* BaseWidget.contains_point
contains_point(w, px, py) ==
    /\ w.x <= px /\ px <= w.x + w.width
    /\ w.y <= py /\ py <= w.y + w.height

---------------------------------------------------------------------------
(* LayoutManager                                                           *)

\* list.sort / sorted with key z_index: Python's sort is stable, so an
\* element goes behind every element whose key is not greater.
RECURSIVE InsertByZ(_, _)
InsertByZ(s, w) ==
    IF s = <<>> THEN <<w>>
    ELSE IF s[Len(s)].z_index <= w.z_index THEN Append(s, w)
    ELSE Append(InsertByZ(SubSeq(s, 1, Len(s) - 1), w), s[Len(s)])

RECURSIVE StableSortByZ(_)
StableSortByZ(s) ==
    IF s = <<>> THEN <<>>
    ELSE InsertByZ(StableSortByZ(SubSeq(s, 1, Len(s) - 1)), s[Len(s)])

\* LayoutManager._sorted_widgets: a sorted copy
sorted_widgets(ws) == StableSortByZ(ws)

\* LayoutManager._sort_widgets: sorts self.widgets in place
sort_widgets(ws) == StableSortByZ(ws)

add_widget_unsorted(ws, w) == Append(ws, w)

\* LayoutManager.add_widget
add_widget(ws, w) == sort_widgets(Append(ws, w))

\* LayoutManager.remove_widget (identity removal, no-op if absent)
remove_widget(ws, id) == SelectSeq(ws, LAMBDA w : w.id # id)

SeqMax(S) == CHOOSE m \in S : \A n \in S : n <= m

\* LayoutManager.get_widget_at: first hit in reversed(_sorted_widgets())
get_widget_at(ws, px, py) ==
    LET s == sorted_widgets(ws)
        hits == { i \in 1 .. Len(s) : s[i].visible /\ contains_point(s[i], px, py) }
    IN  IF hits = {} THEN None ELSE s[SeqMax(hits)].id

bounds_intersect_open(b1, b2) ==
    ~ (b1[3] <= b2[1] \/ b2[3] <= b1[1] \/ b1[4] <= b2[2] \/ b2[4] <= b1[2])

\* LayoutManager._bounds_intersect
bounds_intersect(b1, b2) ==
    ~ (b1[3] < b2[1] \/ b2[3] < b1[1] \/ b1[4] < b2[2] \/ b2[4] < b1[2])

\* LayoutManager.get_widgets_in_area: the widgets (identities), in list order
get_widgets_in_area(ws, a) ==
    LET area_bounds == <<a.x, a.y, a.x + a.width, a.y + a.height>>
        hit == SelectSeq(sorted_widgets(ws),
                   LAMBDA w : w.visible /\ bounds_intersect(bounds(w), area_bounds))
    IN  [i \in 1 .. Len(hit) |-> hit[i].id]

layout_render_unsorted(ws) ==
    LET vis == SelectSeq(ws, LAMBDA w : w.visible)
    IN  [i \in 1 .. Len(vis) |-> [id |-> vis[i].id, z_index |-> vis[i].z_index]]

\* LayoutManager.get_render_data: render_data['widgets'], each record with the
\* 'id' and 'z_index' that the layout adds to the widget's own record
layout_render(ws) ==
    LET vis == SelectSeq(sorted_widgets(ws), LAMBDA w : w.visible)
    IN  [i \in 1 .. Len(vis) |-> [id |-> vis[i].id, z_index |-> vis[i].z_index]]

\* PixoomatApp.update_display: the device calls of one tick.  No device or a
\* tick that is not due returns before any call; otherwise fill, one draw per
\* visible widget of layout_manager.widgets in list order, push.
update_display(ws, connected, due) ==
    IF ~ connected \/ ~ due THEN <<>>
    ELSE LET vis == SelectSeq(ws, LAMBDA w : w.visible)
         IN  <<[call |-> "fill", id |-> None]>>
             \o [i \in 1 .. Len(vis) |-> [call |-> "draw", id |-> vis[i].id]]
             \o <<[call |-> "push", id |-> None]>>

---------------------------------------------------------------------------
(* Widgets: construction (BaseWidget.__init__ and the subclasses)          *)
(*                                                                         *)
(* A widget object is a record [cls, x, y, width, height, visible,         *)
(* z_index, update_interval, properties]; properties is the dict, a record *)
(* keyed by property name.  RGB(A) colours are tuples of integers, floats  *)
(* are kept in hundredths (progress 0.5 is 50), and a value that may be    *)
(* Python None is an option: <<>> for None, <<v>> for the value v.         *)

PyNone == <<>>
Some(v) == <<v>>

\* dict.get(k, default)
Get(d, k, default) == IF k \in DOMAIN d THEN d[k] ELSE default

\* dict.get(k): None when the key is missing
OptGet(d, k) == IF k \in DOMAIN d THEN Some(d[k]) ELSE PyNone

\* d with d[k] = v (dict item assignment)
Put(d, k, v) == [j \in DOMAIN d \cup {k} |-> IF j = k THEN v ELSE d[j]]

\* d without the keys ks
Without(d, ks) == [j \in DOMAIN d \ ks |-> d[j]]

Classes ==
    { "ClockWidget", "WeatherWidget", "DateWidget", "CountdownWidget",
      "StopwatchWidget", "SystemStatsWidget", "SimpleTextWidget",
      "ProgressBarWidget" }

White == <<255, 255, 255>>

Max2(a, b) == IF a >= b THEN a ELSE b
Min2(a, b) == IF a <= b THEN a ELSE b

\* _init_properties of each class: the properties dict it leaves behind
\* (SimpleText and ProgressBar do not override it: the dict stays empty until
\* their __init__ stores the constructor arguments).
init_properties(cls) ==
    CASE cls = "ClockWidget" ->
           [time_format |-> "24", show_seconds |-> FALSE, font_size |-> 4,
            text_color |-> White, background_color |-> PyNone]
      [] cls = "WeatherWidget" ->
           [temperature_unit |-> "C", show_icon |-> TRUE, font_size |-> 3,
            text_color |-> White, background_color |-> PyNone,
            location |-> PyNone, api_provider |-> "open-meteo"]
      [] cls = "DateWidget" ->
           [format |-> "%m/%d/%y", color |-> White, show_day_of_week |-> TRUE]
      [] cls = "CountdownWidget" ->
           [target_date |-> "next-01-01 00:00:00", label |-> "Countdown", color |-> White]
      [] cls = "StopwatchWidget" ->
           [state |-> "stopped", start_time |-> PyNone, elapsed_seconds |-> 0,
            label |-> "Stopwatch", color |-> White]
      [] cls = "SystemStatsWidget" ->
           [metrics |-> <<"CPU", "Memory", "Disk">>, color |-> <<144, 238, 144>>,
            update_interval |-> 5]
      [] OTHER -> <<>>

\* The update_interval attribute after BaseWidget.__init__ and the subclass
\* __init__ (SystemStats takes it from its constructor argument instead).
init_update_interval(cls) ==
    CASE cls = "WeatherWidget" -> 1800
      [] cls = "CountdownWidget" -> 1
      [] cls = "SystemStatsWidget" -> 5
      [] OTHER -> 60

\* get_default_size(screen_size) of each class, reading the properties dict
\* as it is when BaseWidget.__init__ calls it
get_default_size(cls, props, screen_size) ==
    CASE cls = "ClockWidget" ->
           LET text_length ==
                   IF Get(props, "time_format", "24") = "12"
                   THEN (IF Get(props, "show_seconds", FALSE) THEN 11 ELSE 8)
                   ELSE (IF Get(props, "show_seconds", FALSE) THEN 8 ELSE 5)
               font_size == Get(props, "font_size", 4)
           IN  <<Min2(text_length * font_size, screen_size), Min2(font_size + 2, screen_size)>>
      [] cls = "WeatherWidget" ->
           LET font_size == Get(props, "font_size", 3)
           IN  <<Min2(6 * font_size, screen_size), Min2(font_size + 2, screen_size)>>
      [] cls = "DateWidget" -> <<(48 * screen_size) \div 64, (12 * screen_size) \div 64>>
      [] cls = "CountdownWidget" -> <<(50 * screen_size) \div 64, (20 * screen_size) \div 64>>
      [] cls = "StopwatchWidget" -> <<(60 * screen_size) \div 64, (20 * screen_size) \div 64>>
      [] cls = "SystemStatsWidget" ->
           <<Max2((60 * screen_size) \div 64,
                  Len(Get(props, "metrics", <<"CPU", "Memory", "Disk">>)) * 20),
             Max2((30 * screen_size) \div 64, 15)>>
      [] cls = "SimpleTextWidget" ->
           <<Max2(Len(Get(props, "text", "Hello")) * ((6 * screen_size) \div 64), 30),
             Max2((12 * screen_size) \div 64, 10)>>
      [] cls = "ProgressBarWidget" -> <<(80 * screen_size) \div 64, (8 * screen_size) \div 64>>

\* BaseWidget.__init__(x, y, width, height, screen_size); width and height
\* are options (None: the default size of the class)
BaseWidget_init(cls, x, y, width, height, screen_size) ==
    LET props == init_properties(cls)
        dflt == get_default_size(cls, props, screen_size)
    IN  [cls |-> cls, x |-> x, y |-> y,
         width |-> IF width = PyNone THEN dflt[1] ELSE width[1],
         height |-> IF height = PyNone THEN dflt[2] ELSE height[1],
         visible |-> TRUE, z_index |-> 0,
         update_interval |-> init_update_interval(cls),
         properties |-> props]

\* SimpleTextWidget._calculate_dimensions: int(len(text) * (font_size * 0.6))
\* and int(font_size * 1.2)
calculate_dimensions(w) ==
    LET text == Get(w.properties, "text", "Hello")
        font_size == Get(w.properties, "font_size", 12)
    IN  [w EXCEPT !.width = (Len(text) * font_size * 6) \div 10,
                  !.height = (font_size * 12) \div 10]

\* The keyword arguments each constructor accepts
ctor_params(cls) ==
    {"x", "y", "width", "height", "screen_size"} \cup
    CASE cls = "SimpleTextWidget" -> {"text", "color", "font_size", "background_color"}
      [] cls = "ProgressBarWidget" ->
           {"progress", "foreground_color", "background_color", "border_color",
            "show_percentage"}
      [] cls = "SystemStatsWidget" -> {"metrics", "update_interval", "color"}
      [] OTHER -> {}

\* What a constructor call that raises leaves to its caller
Raised == [cls |-> "<exception>"]

\* cls(**kw): the constructed widget, or Raised for an unexpected keyword
\* argument (TypeError).  kw.width and kw.height, when given, are options.
Construct(cls, kw) ==
    IF ~ (DOMAIN kw \subseteq ctor_params(cls)) THEN Raised
    ELSE
    LET x == Get(kw, "x", 0)
        y == Get(kw, "y", 0)
        screen_size == Get(kw, "screen_size", 64)
        base(dw, dh) == BaseWidget_init(cls, x, y, Get(kw, "width", dw),
                                        Get(kw, "height", dh), screen_size)
    IN  CASE cls = "SimpleTextWidget" ->
               calculate_dimensions(
                   [base(PyNone, PyNone) EXCEPT !.properties =
                       [text |-> Get(kw, "text", "Hello"),
                        color |-> Get(kw, "color", White),
                        font_size |-> Get(kw, "font_size", 12),
                        background_color |-> Get(kw, "background_color", <<0, 0, 0, 0>>)]])
          [] cls = "ProgressBarWidget" ->
               [base(Some(50), Some(10)) EXCEPT !.properties =
                   [progress |-> Max2(0, Min2(100, Get(kw, "progress", 50))),
                    foreground_color |-> Get(kw, "foreground_color", <<0, 255, 0>>),
                    background_color |-> Get(kw, "background_color", <<64, 64, 64>>),
                    border_color |-> Get(kw, "border_color", <<128, 128, 128>>),
                    show_percentage |-> Get(kw, "show_percentage", FALSE)]]
          [] cls = "SystemStatsWidget" ->
               LET b == base(PyNone, PyNone)
                   metrics == Get(kw, "metrics", <<"CPU", "Memory", "Disk">>)
                   update_interval == Get(kw, "update_interval", 5)
               IN  [b EXCEPT !.update_interval = update_interval,
                             !.properties =
                                 Put(Put(Put(b.properties, "metrics", metrics),
                                         "color", Get(kw, "color", <<144, 238, 144>>)),
                                     "update_interval", update_interval)]
          [] OTHER -> base(PyNone, PyNone)

---------------------------------------------------------------------------
(* Widgets: to_dict / from_dict                                            *)

\* The 'type' that to_dict emits: BaseWidget.to_dict writes the class name,
\* SimpleText, ProgressBar and SystemStats overwrite it with their plugin name.
type_name(cls) ==
    CASE cls = "SimpleTextWidget" -> "SimpleText"
      [] cls = "ProgressBarWidget" -> "ProgressBar"
      [] cls = "SystemStatsWidget" -> "SystemStats"
      [] OTHER -> cls

\* BaseWidget.to_dict and the overrides of the subclasses
to_dict(w) ==
    [type |-> type_name(w.cls), x |-> w.x, y |-> w.y, width |-> w.width,
     height |-> w.height, visible |-> w.visible, z_index |-> w.z_index,
     update_interval |-> w.update_interval, properties |-> w.properties]

\* [int(c) for c in data[:n]], padded to n entries: pad is the filler, one
\* value or one per position
to_color_tuple(data, n, pad) ==
    [i \in 1 .. n |-> IF i <= Len(data) THEN data[i] ELSE pad[i]]

\* "Restore BaseWidget attributes" of Clock/Date/Countdown/Stopwatch.from_dict
restore_attributes(w, data, default_interval) ==
    [w EXCEPT !.visible = Get(data, "visible", TRUE),
              !.z_index = Get(data, "z_index", 0),
              !.update_interval = Get(data, "update_interval", default_interval),
              !.properties = Get(data, "properties", w.properties)]

\* cls.from_dict(data) of each class
from_dict(cls, data) ==
    LET sized == [x |-> Get(data, "x", 0), y |-> Get(data, "y", 0),
                  width |-> OptGet(data, "width"), height |-> OptGet(data, "height"),
                  screen_size |-> Get(data, "screen_size", 64)]
    IN  CASE cls \in {"ClockWidget", "DateWidget", "StopwatchWidget"} ->
               restore_attributes(Construct(cls, sized), data, 60)
          [] cls = "CountdownWidget" ->
               restore_attributes(Construct(cls, sized), data, 1)
          [] cls = "WeatherWidget" ->
               \* BaseWidget.from_dict: no screen_size, properties default {}
               LET w == Construct(cls, Without(sized, {"screen_size"}))
               IN  [restore_attributes(w, data, 60)
                       EXCEPT !.properties = Get(data, "properties", <<>>)]
          [] cls = "SimpleTextWidget" ->
               Construct(cls,
                   [x |-> sized.x, y |-> sized.y,
                    text |-> Get(data, "text", "Hello"),
                    color |-> to_color_tuple(Get(data, "color", White), 3, <<255, 255, 255>>),
                    font_size |-> Get(data, "font_size", 12),
                    background_color |->
                        to_color_tuple(Get(data, "background_color", <<0, 0, 0, 0>>),
                                       4, <<0, 0, 0, 0>>),
                    width |-> sized.width, height |-> sized.height,
                    screen_size |-> sized.screen_size])
          [] cls = "ProgressBarWidget" ->
               Construct(cls,
                   [x |-> sized.x, y |-> sized.y,
                    width |-> Some(Get(data, "width", 50)),
                    height |-> Some(Get(data, "height", 10)),
                    progress |-> Get(data, "progress", 50),
                    foreground_color |->
                        to_color_tuple(Get(data, "foreground_color", <<>>), 3, <<0, 255, 0>>),
                    background_color |->
                        to_color_tuple(Get(data, "background_color", <<>>), 3, <<64, 64, 64>>),
                    border_color |->
                        to_color_tuple(Get(data, "border_color", <<>>), 3, <<128, 128, 128>>),
                    show_percentage |-> Get(data, "show_percentage", FALSE),
                    screen_size |-> sized.screen_size])
          [] cls = "SystemStatsWidget" ->
               Construct(cls,
                   [x |-> sized.x, y |-> sized.y,
                    metrics |-> Get(Get(data, "properties", <<>>), "metrics",
                                    <<"CPU", "Memory", "Disk">>),
                    update_interval |-> Get(data, "update_interval", 5),
                    color |-> to_color_tuple(Get(data, "color", <<144, 238, 144>>),
                                             3, <<144, 144, 144>>),
                    width |-> sized.width, height |-> sized.height,
                    screen_size |-> sized.screen_size])

---------------------------------------------------------------------------
(* Plugin registry and WidgetFactory                                       *)
(*                                                                         *)
(* An entry of the 'widgets' list of a layout file is a record [d, kinds]: *)
(* d is the dict restricted to the keys whose value has the type the       *)
(* persisted-layout schema gives them, kinds is the set of <<key, kind>>   *)
(* for the keys whose JSON value has another type ("str", "null").  An     *)
(* attribute assigned from such a key is carried as 0 in the widget        *)
(* record; its kind says what the object really holds.                     *)

Entry(d) == [d |-> d, kinds |-> {}]

EntryKeys(e) == DOMAIN e.d \cup { p[1] : p \in e.kinds }

KindOf(e, k) ==
    IF \E p \in e.kinds : p[1] = k
    THEN (CHOOSE p \in e.kinds : p[1] = k)[2]
    ELSE "ok"

\* The widget class each plugin of src/widgets/plugins creates, by the
\* plugin's metadata name
plugin_class(name) ==
    CASE name = "Clock" -> "ClockWidget"
      [] name = "SystemStats" -> "SystemStatsWidget"
      [] name = "Date" -> "DateWidget"
      [] name = "SimpleText" -> "SimpleTextWidget"
      [] name = "Countdown" -> "CountdownWidget"
      [] name = "Stopwatch" -> "StopwatchWidget"
      [] name = "ProgressBar" -> "ProgressBarWidget"

\* PluginManager.widget_classes after load_all_plugins.  The loader imports
\* each file as plugins.<module>; simple_text.py then falls back from its
\* relative import to the top-level plugin_system module, so SimpleTextPlugin
\* is not a subclass of the loader's WidgetPlugin and is passed over.
Discovered == {"Clock", "SystemStats", "Date", "Countdown", "Stopwatch", "ProgressBar"}

\* The registries considered: after discovery, and after a further
\* register_plugin(SimpleTextPlugin())
Registries == {Discovered, Discovered \cup {"SimpleText"}}

\* PluginManager.get_widget_class
get_widget_class(registry, name) ==
    IF name \in registry THEN Some(plugin_class(name)) ELSE PyNone

ReservedKeys ==
    {"type", "x", "y", "width", "height", "visible", "z_index",
     "update_interval", "properties"}

\* dict.update / repeated set_property: b's items over a's
Merge(a, b) ==
    [k \in DOMAIN a \cup DOMAIN b |-> IF k \in DOMAIN b THEN b[k] ELSE a[k]]

\* WidgetFactory._create_plugin_widget: None when the constructor or the
\* walk over properties.items() raises
create_plugin_widget(widget_class, e, screen_size) ==
    LET d == e.d
        extra == EntryKeys(e) \ ReservedKeys
        kwargs == [k \in {"x", "y", "width", "height", "screen_size"} \cup extra |->
                      CASE k = "x" -> Get(d, "x", 0)
                        [] k = "y" -> Get(d, "y", 0)
                        [] k = "width" -> OptGet(d, "width")
                        [] k = "height" -> OptGet(d, "height")
                        [] k = "screen_size" -> screen_size
                        [] OTHER -> d[k]]
        widget == Construct(widget_class, kwargs)
    IN  IF widget = Raised THEN PyNone
        ELSE IF KindOf(e, "properties") # "ok" THEN PyNone
        ELSE Some([widget EXCEPT
                      !.visible = Get(d, "visible", TRUE),
                      !.z_index = Get(d, "z_index", 0),
                      !.update_interval = Get(d, "update_interval", 60),
                      !.properties = Merge(widget.properties, Get(d, "properties", <<>>))])

create_widget_any(registry, widget_type, e, screen_size) ==
    IF widget_type = PyNone \/ get_widget_class(registry, widget_type[1]) = PyNone
    THEN create_plugin_widget("ClockWidget", e, screen_size)
    ELSE create_plugin_widget(get_widget_class(registry, widget_type[1])[1], e, screen_size)

\* WidgetFactory.create_widget: no built-in class is registered, so the
\* type resolves through the plugin registry or not at all.  widget_type is
\* entry.get('type'), an option.
create_widget(registry, widget_type, e, screen_size) ==
    IF widget_type = PyNone THEN PyNone
    ELSE LET widget_class == get_widget_class(registry, widget_type[1])
         IN  IF widget_class = PyNone THEN PyNone
             ELSE create_plugin_widget(widget_class[1], e, screen_size)

\* list.sort(key=z_index) raises TypeError when it has to compare keys that
\* are not mutually ordered: None with anything, str with int
sort_raises(zkinds) ==
    /\ Len(zkinds) >= 2
    /\ \/ \E i \in 1 .. Len(zkinds) : zkinds[i] = "null"
       \/ \E i, j \in 1 .. Len(zkinds) : zkinds[i] = "str" /\ zkinds[j] = "ok"

\* LayoutManager.to_dict
LayoutManager_to_dict(screen_size, ws) ==
    [screen_size |-> screen_size, background_color |-> <<0, 0, 0>>,
     widgets |-> [i \in 1 .. Len(ws) |-> Entry(to_dict(ws[i]))]]

\* The loop of LayoutManager.from_dict over data['widgets'], from entry i on.
\* layout is [raised, widgets, zkinds]: whether an exception left from_dict,
\* the widgets list, and the kind of each z_index in it.
RECURSIVE load_widgets(_, _, _, _, _)
load_widgets(registry, entries, i, screen_size, layout) ==
    IF i > Len(entries) \/ layout.raised THEN layout
    ELSE LET e == entries[i]
             widget == create_widget(registry, OptGet(e.d, "type"), e, screen_size)
             zkinds == Append(layout.zkinds, KindOf(e, "z_index"))
         IN  load_widgets(registry, entries, i + 1, screen_size,
                 IF widget = PyNone THEN layout
                 ELSE IF sort_raises(zkinds)
                      THEN [raised |-> TRUE, widgets |-> <<>>, zkinds |-> <<>>]
                      ELSE [raised |-> FALSE,
                            widgets |-> add_widget(layout.widgets, widget[1]),
                            zkinds |-> zkinds])

\* LayoutManager.from_dict
LayoutManager_from_dict(registry, data) ==
    load_widgets(registry, Get(data, "widgets", <<>>), 1, Get(data, "screen_size", 64),
                 [raised |-> FALSE, widgets |-> <<>>, zkinds |-> <<>>])

---------------------------------------------------------------------------
(* Spec: the layout state machine                                          *)

NoResult == [op |-> "none"]

Ids(ws) == { ws[i].id : i \in 1 .. Len(ws) }

WidgetById(ws, id) == ws[CHOOSE i \in 1 .. Len(ws) : ws[i].id = id]

IdleSerial == serIn = NoResult /\ serOut = NoResult
IdleLoad == loadIn = NoResult /\ loadOut = NoResult
IdleLate ==
    /\ proc = NoResult
    /\ weather = NoResult
    /\ render = NoResult
    /\ undo = NoResult

IdleMore ==
    /\ IdleLate
    /\ validation = NoResult
    /\ stopwatch = NoResult
    /\ countdown = NoResult
    /\ plugin_manager = NoResult
    /\ app = NoResult

Init ==
    /\ widgets = <<>>
    /\ nextId = 1
    /\ zEdited = FALSE
    /\ result = NoResult
    /\ IdleSerial
    /\ IdleLoad
    /\ IdleMore

AddWidget ==
    /\ nextId <= MaxWidgets
    /\ \E r \in Rects, z \in ZValues, v \in BOOLEAN :
          widgets' = add_widget(widgets,
                        [id |-> nextId, x |-> r.x, y |-> r.y, width |-> r.width,
                         height |-> r.height, visible |-> v, z_index |-> z])
    /\ nextId' = nextId + 1
    /\ result' = NoResult
    /\ UNCHANGED <<zEdited, serialVars, loadVars, moreVars>>

RemoveWidget ==
    /\ \E id \in 1 .. MaxWidgets : widgets' = remove_widget(widgets, id)
    /\ result' = NoResult
    /\ UNCHANGED <<nextId, zEdited, serialVars, loadVars, moreVars>>

\* gui/property_panel.py on_change: widget.z_index = z_var.get(), no re-sort
SetZIndex ==
    /\ \E i \in 1 .. Len(widgets), z \in ZValues :
          /\ z # widgets[i].z_index
          /\ widgets' = [widgets EXCEPT ![i].z_index = z]
    /\ zEdited' = TRUE
    /\ result' = NoResult
    /\ UNCHANGED <<nextId, serialVars, loadVars, moreVars>>

\* gui/property_panel.py on_change: widget.visible = visible_var.get()
SetVisible ==
    /\ \E i \in 1 .. Len(widgets) :
          widgets' = [widgets EXCEPT ![i].visible = ~ widgets[i].visible]
    /\ result' = NoResult
    /\ UNCHANGED <<nextId, zEdited, serialVars, loadVars, moreVars>>

GetWidgetAt ==
    /\ \E p \in Points :
          result' = [op |-> "get_widget_at", x |-> p[1], y |-> p[2],
                     ret |-> get_widget_at(widgets, p[1], p[2])]
    /\ UNCHANGED <<widgets, nextId, zEdited, serialVars, loadVars, moreVars>>

GetWidgetsInArea ==
    /\ \E a \in Areas :
          result' = [op |-> "get_widgets_in_area", area |-> a,
                     ret |-> get_widgets_in_area(widgets, a)]
    /\ UNCHANGED <<widgets, nextId, zEdited, serialVars, loadVars, moreVars>>

GetRenderData ==
    /\ result' = [op |-> "get_render_data", ret |-> layout_render(widgets)]
    /\ UNCHANGED <<widgets, nextId, zEdited, serialVars, loadVars, moreVars>>

UpdateDisplay ==
    /\ \E connected \in BOOLEAN, due \in BOOLEAN :
          result' = [op |-> "update_display", connected |-> connected, due |-> due,
                     calls |-> update_display(widgets, connected, due)]
    /\ UNCHANGED <<widgets, nextId, zEdited, serialVars, loadVars, moreVars>>

Next ==
    \/ AddWidget
    \/ RemoveWidget
    \/ SetZIndex
    \/ SetVisible
    \/ GetWidgetAt
    \/ GetWidgetsInArea
    \/ GetRenderData
    \/ UpdateDisplay

Spec == Init /\ [][Next]_vars

---------------------------------------------------------------------------
(* Claims about the layout state machine (checked under Spec)              *)

\* The widgets of the layout, as a set
Live == { widgets[i] : i \in 1 .. Len(widgets) }

ZOf(id) == WidgetById(widgets, id).z_index

\* C6: get_widget_at(x, y) returns the visible widget with the greatest
\* z_index among those whose box contains (x, y), edges included; among equal
\* z_index the widget added last wins; None exactly when no visible widget
\* contains the point -- in every layout state, also after z_index edits.
C6_HitTestTopmostLastAdded ==
    result.op = "get_widget_at" =>
        LET cands == { w \in Live :
                         /\ w.visible
                         /\ w.x <= result.x /\ result.x <= w.x + w.width
                         /\ w.y <= result.y /\ result.y <= w.y + w.height }
        IN  IF cands = {} THEN result.ret = None
            ELSE \E w \in cands :
                    /\ result.ret = w.id
                    /\ \A v \in cands :
                          \/ v.z_index < w.z_index
                          \/ v.z_index = w.z_index /\ v.id <= w.id

\* C7: get_render_data returns exactly one record per visible widget, none
\* for an invisible one, in non-decreasing z_index order, in every state
\* reachable by add_widget, remove_widget and edits of z_index or visible.
C7_RenderDataVisibleAscending ==
    result.op = "get_render_data" =>
        LET r == result.ret
        IN  /\ { r[i].id : i \in 1 .. Len(r) } = { w.id : w \in { v \in Live : v.visible } }
            /\ \A i, j \in 1 .. Len(r) : i # j => r[i].id # r[j].id
            /\ \A i \in 1 .. Len(r) : r[i].z_index = ZOf(r[i].id)
            /\ \A i, j \in 1 .. Len(r) : i < j => r[i].z_index <= r[j].z_index

\* C7 witness: after a z_index edit left the list of two visible widgets
\* unsorted, get_render_data has returned them in the other order.
C7_Witness ==
    /\ result.op = "get_render_data"
    /\ zEdited
    /\ Len(widgets) = 2
    /\ widgets[1].z_index > widgets[2].z_index
    /\ Len(result.ret) = 2
    /\ result.ret[1].id = widgets[2].id

\* C8: in every tick of update_display the visible widgets are drawn on the
\* device in ascending z_index order, in every state reachable by add_widget,
\* remove_widget and a z_index edit after the add.
C8_UpdateDisplayAscendingZ ==
    result.op = "update_display" =>
        LET draws == SelectSeq(result.calls, LAMBDA c : c.call = "draw")
        IN  \A i, j \in 1 .. Len(draws) : i < j => ZOf(draws[i].id) <= ZOf(draws[j].id)

\* C9: as long as no z_index was edited, every add_widget leaves the list
\* sorted by non-decreasing z_index with equal z_index in insertion order, and
\* the list after the call holds the widgets of before plus the new one, each
\* once.
C9_AddWidgetStableSort ==
    [][ (nextId' # nextId /\ ~ zEdited) =>
          /\ Len(widgets') = Len(widgets) + 1
          /\ { widgets'[i] : i \in 1 .. Len(widgets') }
                = Live \cup { w \in { widgets'[i] : i \in 1 .. Len(widgets') } : w.id = nextId }
          /\ \E i \in 1 .. Len(widgets') : widgets'[i].id = nextId
          /\ \A i, j \in 1 .. Len(widgets') : i < j =>
                /\ widgets'[i].z_index <= widgets'[j].z_index
                /\ widgets'[i].z_index = widgets'[j].z_index
                      => widgets'[i].id < widgets'[j].id ]_vars

\* C9 witness: without any z_index edit, the widget added second (lower
\* z_index) was moved in front of the one added first.
C9_Witness ==
    /\ ~ zEdited
    /\ Len(widgets) = 2
    /\ widgets[1].id = 2 /\ widgets[2].id = 1
    /\ widgets[1].z_index < widgets[2].z_index

\* Closed-interval intersection: the closed box of w and the closed area
\* rectangle a share at least one grid point.
MeetsClosed(w, a) ==
    \E px \in 0 .. 4, py \in 0 .. 4 :
        /\ w.x <= px /\ px <= w.x + w.width
        /\ w.y <= py /\ py <= w.y + w.height
        /\ a.x <= px /\ px <= a.x + a.width
        /\ a.y <= py /\ py <= a.y + a.height

\* C10: get_widgets_in_area returns exactly the visible widgets whose closed
\* box shares at least one point with the closed area rectangle (touching
\* edges and corners count), in ascending z_index order.
C10_AreaClosedIntersection ==
    result.op = "get_widgets_in_area" =>
        LET a == result.area
            r == result.ret
        IN  /\ { r[i] : i \in 1 .. Len(r) }
                  = { w.id : w \in { v \in Live : v.visible /\ MeetsClosed(v, a) } }
            /\ \A i, j \in 1 .. Len(r) : i # j => r[i] # r[j]
            /\ \A i, j \in 1 .. Len(r) : i < j => ZOf(r[i]) <= ZOf(r[j])

\* C10 witness: the call returned a widget that touches the area only at one
\* corner point, and left out an invisible widget that meets the area.
C10_Witness ==
    /\ result.op = "get_widgets_in_area"
    /\ \E w \in Live :
          /\ w.x + w.width = result.area.x
          /\ w.y + w.height = result.area.y
          /\ \E i \in 1 .. Len(result.ret) : result.ret[i] = w.id
    /\ \E w \in Live :
          /\ ~ w.visible
          /\ MeetsClosed(w, result.area)
          /\ \A i \in 1 .. Len(result.ret) : result.ret[i] # w.id

---------------------------------------------------------------------------
(* SpecSerial: one widget through to_dict, from_dict and the factory       *)

\* BaseWidget.set_property
set_property(w, key, value) == [w EXCEPT !.properties = Put(@, key, value)]

\* BaseWidget.set_size
set_size(w, width, height) == [w EXCEPT !.width = width, !.height = height]

\* Inputs: where the widget is, the set_size call made on it (None: it keeps
\* the size its constructor gave it), z_index, update_interval (None: left
\* as constructed) and the set_property call made on it
SerialPositions == { <<0, 0>>, <<3, 4>> }
SerialSizes == { PyNone, Some(<<20, 9>>) }
SerialZ == {0, 2}
SerialIntervals == { PyNone, Some(7) }
SerialEdits == {"none", "color", "text", "custom"}

edit_widget(w, edit) ==
    CASE edit = "color" -> set_property(w, "color", <<1, 2, 3>>)
      [] edit = "text" -> set_property(w, "text", "Title")
      [] edit = "custom" -> set_property(w, "test_key", "test_value")
      [] OTHER -> w

\* A widget as a caller builds it: constructor, set_size, attribute
\* assignments, set_property
SerialWidget(cls, pos, size, v, z, ui, edit) ==
    LET w == Construct(cls, [x |-> pos[1], y |-> pos[2]])
        sized == IF size = PyNone THEN w ELSE set_size(w, size[1][1], size[1][2])
    IN  edit_widget([sized EXCEPT !.visible = v, !.z_index = z,
                                  !.update_interval = IF ui = PyNone THEN @ ELSE ui[1]],
                    edit)

InitSerial ==
    /\ widgets = <<>>
    /\ nextId = 1
    /\ zEdited = FALSE
    /\ result = NoResult
    /\ IdleLoad
    /\ IdleMore
    /\ \E cls \in Classes, pos \in SerialPositions, size \in SerialSizes,
          v \in BOOLEAN, z \in SerialZ, ui \in SerialIntervals,
          edit \in SerialEdits, registry \in Registries :
          serIn = [op |-> "widget", registry |-> registry,
                   w |-> SerialWidget(cls, pos, size, v, z, ui, edit)]
    /\ serOut = NoResult

\* d = w.to_dict()
ToDict ==
    /\ serOut.op = "none"
    /\ serOut' = [op |-> "to_dict", d |-> to_dict(serIn.w)]
    /\ UNCHANGED <<layoutVars, loadVars, moreVars, serIn>>

\* type(w).from_dict(d)
FromDict ==
    /\ serOut.op = "to_dict"
    /\ serOut' = [op |-> "from_dict", d |-> serOut.d,
                  w |-> from_dict(serIn.w.cls, serOut.d)]
    /\ UNCHANGED <<layoutVars, loadVars, moreVars, serIn>>

\* WidgetFactory.create_widget(t, entry, 64), the entry being d under its
\* own type or under the name the class is registered by
CreateWidget ==
    /\ serOut.op = "to_dict"
    /\ \E t \in {serOut.d.type} \cup
                { n \in serIn.registry : plugin_class(n) = serIn.w.cls } :
          LET entry == [serOut.d EXCEPT !.type = t]
          IN  serOut' = [op |-> "create_widget", type |-> t, entry |-> entry,
                         w |-> create_widget(serIn.registry, Some(t), Entry(entry), 64)]
    /\ UNCHANGED <<layoutVars, loadVars, moreVars, serIn>>

NextSerial ==
    \/ ToDict
    \/ FromDict
    \/ CreateWidget

SpecSerial == InitSerial /\ [][NextSerial]_vars

---------------------------------------------------------------------------
(* Claims about widget serialization (checked under SpecSerial)            *)

\* C1: for every widget type, from_dict(to_dict(w)) has the x, y, width,
\* height, visible, z_index and update_interval of w and a properties map
\* equal to that of w, entry by entry.
C1_WidgetRoundTrip ==
    serOut.op = "from_dict" =>
        LET w == serIn.w
            r == serOut.w
        IN  /\ r.x = w.x /\ r.y = w.y
            /\ r.width = w.width /\ r.height = w.height
            /\ r.visible = w.visible
            /\ r.z_index = w.z_index
            /\ r.update_interval = w.update_interval
            /\ r.properties = w.properties

\* C5: for a registered type and an entry that follows the layout schema,
\* the widget create_widget returns has the entry's x, y, width, height,
\* visible, z_index and update_interval, and get_property(k) returns
\* properties[k] for every key k of the entry's properties.
C5_FactoryFieldsFromEntry ==
    (serOut.op = "create_widget" /\ serOut.type \in serIn.registry) =>
        /\ serOut.w # PyNone
        /\ LET r == serOut.w[1]
               e == serOut.entry
           IN  /\ r.x = e.x /\ r.y = e.y
               /\ r.width = e.width /\ r.height = e.height
               /\ r.visible = e.visible
               /\ r.z_index = e.z_index
               /\ r.update_interval = e.update_interval
               /\ \A k \in DOMAIN e.properties :
                     k \in DOMAIN r.properties /\ r.properties[k] = e.properties[k]

---------------------------------------------------------------------------
(* SpecLoad: LayoutManager.to_dict / from_dict                             *)

MaxEntries == 2          \* widgets of a layout, entries of a layout file

\* Classes of the widgets a saved layout holds
LoadClasses ==
    {"ClockWidget", "WeatherWidget", "SimpleTextWidget", "ProgressBarWidget",
     "DateWidget"}

\* The entries a layout file is written from, by tag
FileEntryTags ==
    {"Clock", "SystemStats", "Date", "SimpleText", "Countdown", "Stopwatch",
     "ProgressBar",                                       \* plugin names
     "ClockWidget", "WeatherWidget", "NonExistentWidget", \* not plugin names
     "minimal", "no type", "x: str", "properties: str", "z_index: str",
     "z_index: null", "unexpected key"}

\* The complete entry to_dict writes for a fresh widget of class cls, under
\* the type name t and with z_index z
FullEntry(cls, t, z) ==
    [to_dict(Construct(cls, [x |-> 1, y |-> 1])) EXCEPT !.type = t, !.z_index = z]

FileEntry(tag, z) ==
    CASE tag \in Discovered \cup {"SimpleText"} ->
           Entry(FullEntry(plugin_class(tag), tag, z))
      [] tag \in {"ClockWidget", "WeatherWidget"} -> Entry(FullEntry(tag, tag, z))
      [] tag = "NonExistentWidget" ->
           Entry([type |-> tag, x |-> 1, y |-> 1, z_index |-> z])
      [] tag = "minimal" -> Entry([type |-> "Clock", z_index |-> z])
      [] tag = "no type" -> Entry([x |-> 1, y |-> 1, z_index |-> z])
      [] tag = "x: str" ->
           [d |-> [type |-> "Clock", y |-> 1, z_index |-> z],
            kinds |-> {<<"x", "str">>}]
      [] tag = "properties: str" ->
           [d |-> [type |-> "Clock", x |-> 1, y |-> 1, z_index |-> z],
            kinds |-> {<<"properties", "str">>}]
      [] tag = "z_index: str" ->
           [d |-> [type |-> "Clock", x |-> 1, y |-> 1],
            kinds |-> {<<"z_index", "str">>}]
      [] tag = "z_index: null" ->
           [d |-> [type |-> "Clock", x |-> 1, y |-> 1],
            kinds |-> {<<"z_index", "null">>}]
      [] tag = "unexpected key" ->
           Entry([type |-> "Clock", x |-> 1, y |-> 1, z_index |-> z, bogus |-> 1])

\* An entry that follows the persisted-layout schema: it names a type, has
\* no key outside the schema and every value has the schema's type
WellFormed(e) ==
    /\ e.kinds = {}
    /\ "type" \in DOMAIN e.d
    /\ DOMAIN e.d \subseteq ReservedKeys

\* add_widget for each widget of ws in turn, from widget i on
RECURSIVE add_all(_, _, _)
add_all(layout, ws, i) ==
    IF i > Len(ws) THEN layout
    ELSE add_all(add_widget(layout, ws[i]), ws, i + 1)

InitLoad ==
    /\ widgets = <<>>
    /\ nextId = 1
    /\ zEdited = FALSE
    /\ result = NoResult
    /\ IdleSerial
    /\ IdleMore
    /\ \E registry \in Registries, n \in 0 .. MaxEntries :
          \/ \E c \in [1 .. n -> LoadClasses], z \in [1 .. n -> ZValues] :
                loadIn = [op |-> "layout", registry |-> registry,
                          widgets |-> add_all(<<>>,
                              [i \in 1 .. n |->
                                  [Construct(c[i], [x |-> 1, y |-> 1])
                                      EXCEPT !.z_index = z[i]]], 1)]
          \/ \E t \in [1 .. n -> FileEntryTags], z \in [1 .. n -> ZValues] :
                loadIn = [op |-> "file", registry |-> registry,
                          data |-> [screen_size |-> 64, background_color |-> <<0, 0, 0>>,
                                    widgets |-> [i \in 1 .. n |-> FileEntry(t[i], z[i])]]]
    /\ loadOut = NoResult

\* data = layout.to_dict()
SaveLayout ==
    /\ loadIn.op = "layout"
    /\ loadOut.op = "none"
    /\ loadOut' = [op |-> "to_dict", data |-> LayoutManager_to_dict(64, loadIn.widgets)]
    /\ UNCHANGED <<layoutVars, serialVars, moreVars, loadIn>>

\* LayoutManager.from_dict(data) on what to_dict returned
LoadSaved ==
    /\ loadOut.op = "to_dict"
    /\ loadOut' = [op |-> "from_dict", data |-> loadOut.data,
                   layout |-> LayoutManager_from_dict(loadIn.registry, loadOut.data)]
    /\ UNCHANGED <<layoutVars, serialVars, moreVars, loadIn>>

\* LayoutManager.from_dict(data) on the data of a layout file
LoadFile ==
    /\ loadIn.op = "file"
    /\ loadOut.op = "none"
    /\ loadOut' = [op |-> "from_dict", data |-> loadIn.data,
                   layout |-> LayoutManager_from_dict(loadIn.registry, loadIn.data)]
    /\ UNCHANGED <<layoutVars, serialVars, moreVars, loadIn>>

NextLoad ==
    \/ SaveLayout
    \/ LoadSaved
    \/ LoadFile

SpecLoad == InitLoad /\ [][NextLoad]_vars

---------------------------------------------------------------------------
(* Claims about layout loading (checked under SpecLoad)                    *)

\* The classes of a list of widgets, in list order
ClassesOf(ws) == [i \in 1 .. Len(ws) |-> ws[i].cls]

\* The entries of the data from_dict was applied to
LoadedEntries == loadOut.data.widgets

\* The positions of the entries whose type the registry resolves, and of
\* the entries that do not follow the schema
ResolvableAt ==
    { i \in 1 .. Len(LoadedEntries) :
         WellFormed(LoadedEntries[i]) /\ LoadedEntries[i].d.type \in loadIn.registry }

MalformedAt == { i \in 1 .. Len(LoadedEntries) : ~ WellFormed(LoadedEntries[i]) }

\* C2: for a layout of Clock, Weather, SimpleText and ProgressBar widgets,
\* from_dict(layout.to_dict()) does not raise and holds the same number of
\* widgets with the same sequence of classes.
C2_LayoutRoundTripKeepsClasses ==
    ( /\ loadOut.op = "from_dict"
      /\ loadIn.op = "layout"
      /\ \A i \in 1 .. Len(loadIn.widgets) :
            loadIn.widgets[i].cls \in
                {"ClockWidget", "WeatherWidget", "SimpleTextWidget", "ProgressBarWidget"} )
    => /\ ~ loadOut.layout.raised
       /\ ClassesOf(loadOut.layout.widgets) = ClassesOf(loadIn.widgets)

C4_OneBadEntryNeverAborts ==
    ( /\ loadOut.op = "from_dict"
      /\ Cardinality(MalformedAt) = 1 )
    => /\ ~ loadOut.layout.raised
       /\ Len(loadOut.layout.widgets) >= Cardinality(ResolvableAt)

---------------------------------------------------------------------------
(* SpecValidate: validate / validate_layout                                *)
(*                                                                         *)
(* A widget under validation is a record [w, kinds]: w is the widget, kinds *)
(* the set of <<key, kind>> for the properties that set_property was given *)
(* a value of another kind than the class stores there: "null" (None),     *)
(* "str" (a string), "num" (a number).                                     *)

\* The property each class keeps its RGB color in
color_key(cls) ==
    CASE cls \in {"ClockWidget", "WeatherWidget"} -> "text_color"
      [] cls = "ProgressBarWidget" -> "foreground_color"
      [] OTHER -> "color"

\* BaseWidget.__str__, the prefix validate_layout gives to a message
widget_str(w) == <<w.cls, w.x, w.y, w.width, w.height>>

\* BaseWidget.validate
BaseWidget_validate(w) ==
    (IF w.width <= 0 \/ w.height <= 0
     THEN <<"Widget dimensions must be positive">> ELSE <<>>)
    \o (IF w.update_interval <= 0
        THEN <<"Update interval must be positive">> ELSE <<>>)

\* len(color) != 3 or any(not isinstance(c, int) or c < 0 or c > 255 ...):
\* "raise" when len() is applied to None or to a number (TypeError),
\* "error" when the test is true, "ok" when it is false.  A string passes
\* len() and its characters are not ints.
rgb_check(v, key, default) ==
    LET kind == KindOf(v, key)
        color == Get(v.w.properties, key, default)
    IN  IF kind \in {"null", "num"} THEN "raise"
        ELSE IF kind = "str" THEN "error"
        ELSE IF Len(color) # 3 \/ \E i \in 1 .. Len(color) : color[i] < 0 \/ color[i] > 255
             THEN "error"
             ELSE "ok"

\* value not in [a, b]: membership compares with ==, which accepts any kind
not_in_enum(v, key, default, allowed) ==
    KindOf(v, key) # "ok" \/ Get(v.w.properties, key, default) \notin allowed

\* validate() of each class: [raised, errors].  Only Clock, Weather and
\* SystemStats override BaseWidget.validate.
validate(v) ==
    LET w == v.w
        base == BaseWidget_validate(w)
        errs(test, msg) == IF test THEN <<msg>> ELSE <<>>
        Raise == [raised |-> TRUE, errors |-> <<>>]
        Return(errors) == [raised |-> FALSE, errors |-> errors]
    IN  CASE w.cls = "ClockWidget" ->
               IF rgb_check(v, "text_color", White) = "raise" THEN Raise
               ELSE Return(
                   base
                   \o errs(not_in_enum(v, "time_format", "24", {"12", "24"}),
                           "Time format must be '12' or '24'")
                   \o errs(rgb_check(v, "text_color", White) = "error",
                           "Text color must be RGB values between 0 and 255")
                   \o errs(Get(w.properties, "show_seconds", FALSE) /\ w.update_interval > 1,
                           "Update interval should be 1 second or less when showing seconds"))
          [] w.cls = "WeatherWidget" ->
               IF rgb_check(v, "text_color", White) = "raise" THEN Raise
               ELSE Return(
                   base
                   \o errs(not_in_enum(v, "temperature_unit", "C", {"C", "F"}),
                           "Temperature unit must be 'C' or 'F'")
                   \o errs(rgb_check(v, "text_color", White) = "error",
                           "Text color must be RGB values between 0 and 255"))
          [] w.cls = "SystemStatsWidget" ->
               IF rgb_check(v, "color", <<144, 238, 144>>) = "raise" THEN Raise
               ELSE Return(
                   base
                   \o errs(KindOf(v, "metrics") = "null"
                           \/ (KindOf(v, "metrics") = "ok"
                               /\ Get(w.properties, "metrics", <<"CPU">>) = <<>>),
                           "At least one metric must be selected")
                   \o errs(rgb_check(v, "color", <<144, 238, 144>>) = "error",
                           "Color must be RGB values between 0 and 255"))
          [] OTHER -> Return(base)

\* The messages validate_layout's first loop collects for vs[i..], each
\* prefixed with the widget
RECURSIVE widget_errors(_, _)
widget_errors(vs, i) ==
    IF i > Len(vs) THEN <<>>
    ELSE LET r == validate(vs[i])
         IN  [j \in 1 .. Len(r.errors) |->
                 [widget |-> widget_str(vs[i].w), error |-> r.errors[j]]]
             \o widget_errors(vs, i + 1)

\* The messages of validate_layout's second loop for vs[i..]
RECURSIVE bounds_errors(_, _, _)
bounds_errors(vs, i, screen_size) ==
    IF i > Len(vs) THEN <<>>
    ELSE LET w == vs[i].w
         IN  (IF w.x < 0 \/ w.y < 0
              THEN <<[widget |-> widget_str(w), error |-> "Position cannot be negative"]>>
              ELSE <<>>)
             \o (IF w.x + w.width > screen_size \/ w.y + w.height > screen_size
                 THEN <<[widget |-> widget_str(w), error |-> "Extends beyond screen bounds"]>>
                 ELSE <<>>)
             \o bounds_errors(vs, i + 1, screen_size)

\* LayoutManager.validate_layout: [raised, errors]
validate_layout(vs, screen_size) ==
    IF \E i \in 1 .. Len(vs) : validate(vs[i]).raised
    THEN [raised |-> TRUE, errors |-> <<>>]
    ELSE [raised |-> FALSE,
          errors |-> widget_errors(vs, 1) \o bounds_errors(vs, 1, screen_size)]

\* Inputs: the x of the widget and what was done to it before validation
ValidateXs == {-1, 0, 60}
ValidateEdits ==
    {"none", "color out of range", "color short", "color None", "color str",
     "color num", "bad enum", "zero size"}

ValidatedWidget(cls, x, edit) ==
    LET w == Construct(cls, [x |-> x, y |-> 0])
        key == color_key(cls)
    IN  CASE edit = "color out of range" ->
               [w |-> set_property(w, key, <<300, 0, 0>>), kinds |-> {}]
          [] edit = "color short" ->
               [w |-> set_property(w, key, <<255, 255>>), kinds |-> {}]
          [] edit = "color None" -> [w |-> w, kinds |-> {<<key, "null">>}]
          [] edit = "color str" -> [w |-> w, kinds |-> {<<key, "str">>}]
          [] edit = "color num" -> [w |-> w, kinds |-> {<<key, "num">>}]
          [] edit = "bad enum" ->
               [w |-> CASE cls = "ClockWidget" -> set_property(w, "time_format", "25")
                        [] cls = "WeatherWidget" -> set_property(w, "temperature_unit", "K")
                        [] cls = "SystemStatsWidget" -> set_property(w, "metrics", <<>>)
                        [] OTHER -> w,
                kinds |-> {}]
          [] edit = "zero size" -> [w |-> set_size(w, 0, 0), kinds |-> {}]
          [] OTHER -> [w |-> w, kinds |-> {}]

InitValidate ==
    /\ widgets = <<>>
    /\ nextId = 1
    /\ zEdited = FALSE
    /\ result = NoResult
    /\ IdleSerial
    /\ IdleLoad
    /\ stopwatch = NoResult
    /\ countdown = NoResult
    /\ plugin_manager = NoResult
    /\ app = NoResult
    /\ IdleLate
    /\ \E c1 \in Classes, c2 \in Classes, x1 \in ValidateXs, x2 \in ValidateXs,
          e1 \in ValidateEdits, e2 \in ValidateEdits :
          validation = [op |-> "layout",
                        widgets |-> <<ValidatedWidget(c1, x1, e1),
                                      ValidatedWidget(c2, x2, e2)>>]

\* widget.validate() on one widget of the layout
Validate ==
    /\ validation.op = "layout"
    /\ \E i \in 1 .. Len(validation.widgets) :
          validation' = [op |-> "validate", widgets |-> validation.widgets, i |-> i,
                         ret |-> validate(validation.widgets[i])]
    /\ UNCHANGED <<layoutVars, serialVars, loadVars, stopwatch, countdown,
                   plugin_manager, app, lateVars>>

\* layout.validate_layout()
ValidateLayout ==
    /\ validation.op = "layout"
    /\ validation' = [op |-> "validate_layout", widgets |-> validation.widgets,
                      ret |-> validate_layout(validation.widgets, 64)]
    /\ UNCHANGED <<layoutVars, serialVars, loadVars, stopwatch, countdown,
                   plugin_manager, app, lateVars>>

NextValidate ==
    \/ Validate
    \/ ValidateLayout

SpecValidate == InitValidate /\ [][NextValidate]_vars

---------------------------------------------------------------------------
(* Claims about validation (checked under SpecValidate)                    *)

\* The widget holds a three-component color with a component outside 0..255
OutOfRangeColor(v) ==
    LET key == color_key(v.w.cls)
    IN  /\ KindOf(v, key) = "ok"
        /\ key \in DOMAIN v.w.properties
        /\ Len(v.w.properties[key]) = 3
        /\ \E i \in 1 .. 3 : v.w.properties[key][i] < 0 \/ v.w.properties[key][i] > 255

\* C11: when one widget of the layout has a negative x and another has an
\* out-of-range RGB color, validate_layout returns at least two distinct
\* messages, at least one prefixed with each of the two widgets.
C11_ValidateLayoutReportsBoth ==
    validation.op = "validate_layout" =>
        \A i, j \in 1 .. Len(validation.widgets) :
            ( /\ i # j
              /\ validation.widgets[i].w.x < 0
              /\ OutOfRangeColor(validation.widgets[j]) )
            => LET errors == validation.ret.errors
                   msgs == { errors[k] : k \in 1 .. Len(errors) }
               IN  /\ ~ validation.ret.raised
                   /\ Cardinality(msgs) >= 2
                   /\ \E m \in msgs : m.widget = widget_str(validation.widgets[i].w)
                   /\ \E m \in msgs : m.widget = widget_str(validation.widgets[j].w)

\* C12: validate() returns a list of messages and never raises, whatever
\* values set_property has stored in the widget's properties.
C12_ValidateNeverRaises ==
    validation.op = "validate" => ~ validation.ret.raised

---------------------------------------------------------------------------
(* SpecStopwatch: StopwatchWidget over a discrete wall clock               *)
(*                                                                         *)
(* Time is in whole seconds.  The variable stopwatch holds the clock       *)
(* (now), the widget's state, start_time, elapsed_seconds and              *)
(* update_interval, what the last get_render_data did (op, at, before,     *)
(* start_before, total, text) and three histories: running_total (seconds  *)
(* that passed while state was 'running' since the last reset was          *)
(* performed), reads (reads since the last set_property, capped at 2),     *)
(* first_before (the state the first of them found) and prev_total (what   *)
(* the read before reported, when nothing was set in between).             *)

MaxTime == 4             \* the clock runs from 0 to MaxTime

StopwatchStates == {"stopped", "running", "reset", "paused"}

\* StopwatchWidget.format_seconds: HH:MM:SS
format_seconds(seconds) ==
    <<seconds \div 3600, (seconds % 3600) \div 60, seconds % 60>>

stopwatch_read_sticky_reset(sw, t1, t2) ==
    IF sw.state = "reset"
    THEN [state |-> "reset", start_time |-> PyNone,
          elapsed_seconds |-> 0, update_interval |-> 60, total |-> 0]
    ELSE [state |-> sw.state, start_time |-> sw.start_time,
          elapsed_seconds |-> sw.elapsed_seconds,
          update_interval |-> IF sw.state = "running" THEN 1 ELSE 60,
          total |-> sw.elapsed_seconds]

stopwatch_read_restamp(sw, t1, t2) ==
    IF sw.state = "running"
    THEN [state |-> sw.state, start_time |-> Some(t1),
          elapsed_seconds |-> sw.elapsed_seconds, update_interval |-> 1,
          total |-> sw.elapsed_seconds + (t2 - t1)]
    ELSE [state |-> IF sw.state = "reset" THEN "stopped" ELSE sw.state,
          start_time |-> IF sw.state = "reset" THEN PyNone ELSE sw.start_time,
          elapsed_seconds |-> IF sw.state = "reset" THEN 0 ELSE sw.elapsed_seconds,
          update_interval |-> 60,
          total |-> IF sw.state = "reset" THEN 0 ELSE sw.elapsed_seconds]

\* StopwatchWidget.get_render_data read at time t1 (the stamp) and t2 (the
\* later now()): the widget's attributes after it and the total it reports
stopwatch_read(sw, t1, t2) ==
    CASE sw.state = "running" ->
           LET start_time == IF sw.start_time = PyNone THEN Some(t1) ELSE sw.start_time
           IN  [state |-> sw.state, start_time |-> start_time,
                elapsed_seconds |-> sw.elapsed_seconds, update_interval |-> 1,
                total |-> sw.elapsed_seconds + (t2 - start_time[1])]
      [] sw.state = "stopped" ->
           [state |-> sw.state, start_time |-> sw.start_time,
            elapsed_seconds |-> sw.elapsed_seconds, update_interval |-> 60,
            total |-> sw.elapsed_seconds]
      [] sw.state = "reset" ->
           [state |-> "stopped", start_time |-> PyNone,
            elapsed_seconds |-> 0, update_interval |-> 60, total |-> 0]
      [] OTHER ->
           [state |-> sw.state, start_time |-> sw.start_time,
            elapsed_seconds |-> sw.elapsed_seconds, update_interval |-> 60,
            total |-> sw.elapsed_seconds]

InitStopwatch ==
    /\ widgets = <<>>
    /\ nextId = 1
    /\ zEdited = FALSE
    /\ result = NoResult
    /\ IdleSerial
    /\ IdleLoad
    /\ validation = NoResult
    /\ countdown = NoResult
    /\ plugin_manager = NoResult
    /\ app = NoResult
    /\ IdleLate
    /\ stopwatch = [op |-> "init", now |-> 0,
                    state |-> "stopped", start_time |-> PyNone,
                    elapsed_seconds |-> 0, update_interval |-> 60,
                    at |-> 0, before |-> "stopped", start_before |-> PyNone,
                    total |-> 0, text |-> format_seconds(0),
                    running_total |-> 0, reads |-> 0, first_before |-> "stopped",
                    prev_total |-> PyNone]

StopwatchFrame ==
    UNCHANGED <<layoutVars, serialVars, loadVars, validation, countdown,
                plugin_manager, app, lateVars>>

\* One second passes
StopwatchTick ==
    /\ stopwatch.now < MaxTime
    /\ stopwatch' = [stopwatch EXCEPT
                        !.op = "tick",
                        !.now = @ + 1,
                        !.running_total =
                            IF stopwatch.state = "running" THEN @ + 1 ELSE @]
    /\ StopwatchFrame

\* widget.set_property('state', s)
StopwatchSetState ==
    /\ \E s \in StopwatchStates :
          stopwatch' = [stopwatch EXCEPT
                           !.op = "set_property", !.state = s, !.reads = 0,
                           !.prev_total = PyNone]
    /\ StopwatchFrame

\* widget.get_render_data(); the clock may advance between its two calls
\* of datetime.now()
StopwatchRead ==
    /\ \E t2 \in {stopwatch.now, stopwatch.now + 1} :
          /\ t2 <= MaxTime
          /\ LET r == stopwatch_read(stopwatch, stopwatch.now, t2)
             IN  stopwatch' =
                    [op |-> "read", now |-> t2,
                     state |-> r.state, start_time |-> r.start_time,
                     elapsed_seconds |-> r.elapsed_seconds,
                     update_interval |-> r.update_interval,
                     at |-> stopwatch.now, before |-> stopwatch.state,
                     start_before |-> stopwatch.start_time,
                     total |-> r.total, text |-> format_seconds(r.total),
                     running_total |->
                         IF stopwatch.state = "reset" THEN 0
                         ELSE IF stopwatch.state = "running"
                              THEN stopwatch.running_total + (t2 - stopwatch.now)
                              ELSE stopwatch.running_total,
                     reads |-> IF stopwatch.reads = 0 THEN 1 ELSE 2,
                     first_before |->
                         IF stopwatch.reads = 0 THEN stopwatch.state
                         ELSE stopwatch.first_before,
                     prev_total |->
                         IF stopwatch.reads = 0 THEN PyNone ELSE Some(stopwatch.total)]
    /\ StopwatchFrame

NextStopwatch ==
    \/ StopwatchTick
    \/ StopwatchSetState
    \/ StopwatchRead

SpecStopwatch == InitStopwatch /\ [][NextStopwatch]_vars

---------------------------------------------------------------------------
(* Claims about the stopwatch (checked under SpecStopwatch)                *)

\* C13: a read in state 'reset' reports 00:00:00, zeroes elapsed_seconds,
\* clears start_time, leaves state 'stopped' and update_interval 60; the
\* reads that follow without a set_property in between change none of it.
C13_ResetIsOneShot ==
    (stopwatch.reads >= 1 /\ stopwatch.first_before = "reset") =>
        /\ stopwatch.text = <<0, 0, 0>>
        /\ stopwatch.elapsed_seconds = 0
        /\ stopwatch.start_time = PyNone
        /\ stopwatch.state = "stopped"
        /\ stopwatch.update_interval = 60

\* A second read after a reset that found the stopwatch with a start_time
\* recorded some seconds into the run.
C13_Witness ==
    /\ stopwatch.op = "read"
    /\ stopwatch.reads = 2
    /\ stopwatch.first_before = "reset"
    /\ stopwatch.running_total = 0
    /\ stopwatch.at >= 2

\* C14: a read in state 'running' stamps start_time with the time of the
\* read when none is recorded and leaves a recorded one alone, reports
\* elapsed_seconds + (now - start_time), never less than the read before it
\* in the same run, and leaves update_interval at 1.
C14_RunningReads ==
    (stopwatch.op = "read" /\ stopwatch.before = "running") =>
        /\ stopwatch.start_before = PyNone => stopwatch.start_time = Some(stopwatch.at)
        /\ stopwatch.start_before # PyNone => stopwatch.start_time = stopwatch.start_before
        /\ stopwatch.total =
               stopwatch.elapsed_seconds + (stopwatch.now - stopwatch.start_time[1])
        /\ stopwatch.text = format_seconds(stopwatch.total)
        /\ stopwatch.prev_total # PyNone => stopwatch.total >= stopwatch.prev_total[1]
        /\ stopwatch.update_interval = 1

\* A later read of the same run reports more than the read before it.
C14_Witness ==
    /\ stopwatch.op = "read"
    /\ stopwatch.before = "running"
    /\ stopwatch.start_before # PyNone
    /\ stopwatch.prev_total # PyNone
    /\ stopwatch.total > stopwatch.prev_total[1]

\* C15: a read in state 'stopped' reports the seconds spent in state
\* 'running' since the last reset and leaves update_interval at 60.
C15_StoppedReportsAccumulated ==
    (stopwatch.op = "read" /\ stopwatch.before = "stopped") =>
        /\ stopwatch.total = stopwatch.running_total
        /\ stopwatch.update_interval = 60

---------------------------------------------------------------------------
(* SpecCountdown: CountdownWidget.get_render_data                          *)
(*                                                                         *)
(* A target_date string is a sequence of tokens [c, v, n]: a run of n      *)
(* digits of value v (c = "#"), a separator character (c = "-", ":", "/",  *)
(* "T"), whitespace (c = " ") or a run of letters (c = "a").  A datetime   *)
(* is <<ordinal day, second of the day>>, a timedelta <<days, seconds>>.   *)

Num(v, n) == [c |-> "#", v |-> v, n |-> n]
Sep(c) == [c |-> c, v |-> 0, n |-> 0]

\* strftime('%Y-%m-%d %H:%M:%S')
DateText(y, m, d, H, M, S) ==
    <<Num(y, 4), Sep("-"), Num(m, 2), Sep("-"), Num(d, 2), Sep(" "),
      Num(H, 2), Sep(":"), Num(M, 2), Sep(":"), Num(S, 2)>>

is_leap(y) == (y % 4 = 0) /\ ((y % 100 # 0) \/ (y % 400 = 0))

days_in_month(y, m) ==
    CASE m = 2 -> IF is_leap(y) THEN 29 ELSE 28
      [] m \in {4, 6, 9, 11} -> 30
      [] OTHER -> 31

RECURSIVE days_before_month(_, _)
days_before_month(y, m) ==
    IF m <= 1 THEN 0 ELSE days_before_month(y, m - 1) + days_in_month(y, m - 1)

\* datetime.toordinal
ordinal(y, m, d) ==
    365 * (y - 1) + ((y - 1) \div 4) - ((y - 1) \div 100) + ((y - 1) \div 400)
    + days_before_month(y, m) + d

\* datetime(y, m, d, H, M, S)
DateTime(y, m, d, H, M, S) == <<ordinal(y, m, d), 3600 * H + 60 * M + S>>

\* datetime.strptime(text, '%Y-%m-%d %H:%M:%S'): Some(datetime), or None
\* for ValueError (the text does not match the format, data remains
\* unconverted, or the fields are no date)
strptime(text) ==
    IF Len(text) # 11 THEN PyNone
    ELSE IF [i \in 1 .. 11 |-> text[i].c]
            # <<"#", "-", "#", "-", "#", " ", "#", ":", "#", ":", "#">> THEN PyNone
    ELSE LET y == text[1].v
             m == text[3].v
             d == text[5].v
             H == text[7].v
             M == text[9].v
             S == text[11].v
         IN  IF \/ text[1].n # 4
                \/ \E i \in {3, 5, 7, 9, 11} : text[i].n \notin {1, 2}
                \/ m \notin 1 .. 12 \/ d \notin 1 .. 31
                \/ H \notin 0 .. 23 \/ M \notin 0 .. 59 \/ S \notin 0 .. 61
             THEN PyNone                      \* no match
             ELSE IF y < 1 \/ d > days_in_month(y, m) \/ S > 59
             THEN PyNone                      \* datetime() rejects the fields
             ELSE Some(DateTime(y, m, d, H, M, S))

\* now >= target_date
dt_ge(a, b) == a[1] > b[1] \/ (a[1] = b[1] /\ a[2] >= b[2])

\* target_date - now, as timedelta normalizes it
dt_sub(a, b) ==
    IF a[2] >= b[2] THEN <<a[1] - b[1], a[2] - b[2]>>
    ELSE <<a[1] - b[1] - 1, a[2] - b[2] + 86400>>

\* datetime + seconds, for less than a day
dt_add(a, secs) ==
    IF a[2] + secs < 86400 THEN <<a[1], a[2] + secs>>
    ELSE <<a[1] + 1, a[2] + secs - 86400>>

countdown_render_configured_color(w, now) ==
    LET target_date == strptime(w.target_date)
    IN  IF target_date = PyNone
        THEN [type |-> "text", text |-> <<"Invalid date format">>, color |-> w.color]
        ELSE [type |-> "text", text |-> <<w.label, <<0, 0, 0, 0>>>>, color |-> w.color]

\* CountdownWidget.get_render_data; text is the list of the record's lines,
\* the countdown line as <<DD, HH, MM, SS>>
countdown_render(w, now) ==
    LET target_date == strptime(w.target_date)
    IN  IF target_date = PyNone
        THEN [type |-> "text", text |-> <<"Invalid date format">>, color |-> <<255, 0, 0>>]
        ELSE LET delta == dt_sub(target_date[1], now)
                 countdown_text ==
                     IF dt_ge(now, target_date[1]) THEN <<0, 0, 0, 0>>
                     ELSE <<delta[1], delta[2] \div 3600, (delta[2] % 3600) \div 60,
                            (delta[2] % 3600) % 60>>
             IN  [type |-> "text", text |-> <<w.label, countdown_text>>, color |-> w.color]

\* The target_date strings given to set_property
TargetDates ==
    { DateText(2025, 1, 1, 0, 0, 0),                       \* "2025-01-01 00:00:00"
      DateText(2025, 3, 1, 12, 0, 0),                      \* "2025-03-01 12:00:00"
      DateText(2024, 2, 29, 12, 30, 5),                    \* "2024-02-29 12:30:05"
      [DateText(2025, 1, 1, 0, 0, 0) EXCEPT ![3].n = 1, ![5].n = 1],  \* "2025-1-1 00:00:00"
      DateText(2023, 2, 29, 0, 0, 0),                      \* "2023-02-29 00:00:00"
      DateText(2024, 13, 1, 0, 0, 0),                      \* "2024-13-01 00:00:00"
      DateText(2025, 1, 1, 24, 0, 0),                      \* "2025-01-01 24:00:00"
      DateText(2025, 1, 1, 0, 0, 60),                      \* "2025-01-01 00:00:60"
      DateText(0, 1, 1, 0, 0, 0),                          \* "0000-01-01 00:00:00"
      [DateText(2025, 1, 1, 0, 0, 0) EXCEPT ![1].n = 2, ![1].v = 25], \* "25-01-01 00:00:00"
      [DateText(2025, 1, 1, 0, 0, 0) EXCEPT ![2].c = "/", ![4].c = "/"], \* "2025/01/01 00:00:00"
      [DateText(2025, 1, 1, 0, 0, 0) EXCEPT ![6].c = "T"], \* "2025-01-01T00:00:00"
      SubSeq(DateText(2025, 1, 1, 0, 0, 0), 1, 5),         \* "2025-01-01"
      DateText(2025, 1, 1, 0, 0, 0) \o <<Sep(" "), Sep("a")>>, \* "2025-01-01 00:00:00 UTC"
      <<Sep("a"), Sep("-"), Sep("a"), Sep("-"), Sep("a")>>,   \* "invalid-date-format"
      <<>> }                                               \* ""

CountdownLabels == {"Countdown", "My Countdown"}
CountdownColors == {White, <<50, 100, 200>>}

\* The wall clock when the widget is constructed: 2024-12-31 23:59:58
CountdownEpoch == DateTime(2024, 12, 31, 23, 59, 58)

InitCountdown ==
    /\ widgets = <<>>
    /\ nextId = 1
    /\ zEdited = FALSE
    /\ result = NoResult
    /\ IdleSerial
    /\ IdleLoad
    /\ validation = NoResult
    /\ stopwatch = NoResult
    /\ plugin_manager = NoResult
    /\ app = NoResult
    /\ IdleLate
    /\ countdown = [op |-> "init", elapsed |-> 0,
                    target_date |-> DateText(2025, 1, 1, 0, 0, 0),
                    label |-> "Countdown", color |-> White,
                    render |-> [type |-> "none", text |-> <<>>, color |-> White],
                    seen_invalid |-> FALSE]

CountdownFrame ==
    UNCHANGED <<layoutVars, serialVars, loadVars, validation, stopwatch,
                plugin_manager, app, lateVars>>

\* One second passes
CountdownTick ==
    /\ countdown.elapsed < MaxTime
    /\ countdown' = [countdown EXCEPT !.op = "tick", !.elapsed = @ + 1]
    /\ CountdownFrame

\* set_property('target_date', text)
CountdownSetTarget ==
    /\ \E text \in TargetDates :
          countdown' = [countdown EXCEPT !.op = "set_property", !.target_date = text]
    /\ CountdownFrame

\* set_property('label', ...) and set_property('color', ...)
CountdownSetStyle ==
    /\ \E label \in CountdownLabels, color \in CountdownColors :
          countdown' = [countdown EXCEPT !.op = "set_property",
                                         !.label = label, !.color = color]
    /\ CountdownFrame

\* widget.get_render_data()
CountdownRead ==
    /\ countdown' = [countdown EXCEPT
                        !.op = "read",
                        !.render = countdown_render(countdown,
                                       dt_add(CountdownEpoch, countdown.elapsed)),
                        !.seen_invalid =
                            @ \/ strptime(countdown.target_date) = PyNone]
    /\ CountdownFrame

NextCountdown ==
    \/ CountdownTick
    \/ CountdownSetTarget
    \/ CountdownSetStyle
    \/ CountdownRead

SpecCountdown == InitCountdown /\ [][NextCountdown]_vars

---------------------------------------------------------------------------
(* Claims about the countdown (checked under SpecCountdown)                *)

\* C16: for a target_date string that does not parse, get_render_data
\* returns a text record with the text "Invalid date format" and the color
\* (255, 0, 0) whatever label and color are configured; once a parsable
\* target_date is set again, the record carries the label, the countdown
\* and the configured color.
C16_InvalidDateRecord ==
    countdown.op = "read" =>
        IF strptime(countdown.target_date) = PyNone
        THEN /\ countdown.render.type = "text"
             /\ countdown.render.text = <<"Invalid date format">>
             /\ countdown.render.color = <<255, 0, 0>>
        ELSE /\ countdown.render.type = "text"
             /\ Len(countdown.render.text) = 2
             /\ countdown.render.text[1] = countdown.label
             /\ countdown.render.color = countdown.color

\* A read of a date that is no date (2023-02-29) under a custom label and
\* color.
C16_Witness ==
    /\ countdown.op = "read"
    /\ countdown.target_date = DateText(2023, 2, 29, 0, 0, 0)
    /\ countdown.label = "My Countdown"
    /\ countdown.color = <<50, 100, 200>>
    /\ countdown.render.text = <<"Invalid date format">>

---------------------------------------------------------------------------
(* SpecRegistry: PluginManager.register_plugin and plugin discovery        *)
(*                                                                         *)
(* The registry is [plugins, widget_classes]: plugins maps a name to the   *)
(* registered instance [version, made], made being the number of the call  *)
(* that instantiated it, and widget_classes maps a name to a widget class. *)

MaxCalls == 3
MaxFaults == 1

\* The files of widgets/plugins other than __init__.py
Modules ==
    { "clock_widget", "countdown_widget", "date_widget", "progress_bar",
      "simple_text", "stopwatch_widget", "system_stats_widget" }

\* plugins/__init__.py imports these modules, so importing any module of
\* the package imports them first
PackageInitImports == {"simple_text", "progress_bar"}

\* The first class of the module in inspect.getmembers order that is
\* concrete and not WidgetPlugin itself; subclass tells whether it derives
\* from the WidgetPlugin of widgets.plugin_system (simple_text falls back to
\* the WidgetPlugin of a top-level plugin_system module)
module_plugin(m) ==
    CASE m = "clock_widget" -> [name |-> "Clock", subclass |-> TRUE]
      [] m = "countdown_widget" -> [name |-> "Countdown", subclass |-> TRUE]
      [] m = "date_widget" -> [name |-> "Date", subclass |-> TRUE]
      [] m = "progress_bar" -> [name |-> "ProgressBar", subclass |-> TRUE]
      [] m = "simple_text" -> [name |-> "SimpleText", subclass |-> FALSE]
      [] m = "stopwatch_widget" -> [name |-> "Stopwatch", subclass |-> TRUE]
      [] m = "system_stats_widget" -> [name |-> "SystemStats", subclass |-> TRUE]

\* What goes wrong with each module: nothing, its import raises, its plugin
\* class raises when instantiated, or its create_widget raises
FaultKinds == {"none", "import", "instantiate", "register"}
Faults ==
    { f \in [Modules -> FaultKinds] :
        Cardinality({m \in Modules : f[m] # "none"}) <= MaxFaults }

\* os.listdir orders considered: the rotations of the sorted listing and
\* of its reverse
SortedListing ==
    << "clock_widget", "countdown_widget", "date_widget", "progress_bar",
       "simple_text", "stopwatch_widget", "system_stats_widget" >>
ScanOrders ==
    { [i \in 1 .. 7 |-> SortedListing[((i + r - 1) % 7) + 1]] : r \in 0 .. 6 }
    \cup { [i \in 1 .. 7 |-> SortedListing[7 - ((i + r - 1) % 7)]] : r \in 0 .. 6 }

EmptyRegistry == [plugins |-> <<>>, widget_classes |-> <<>>]

register_plugin_overwrite(reg, plugin) ==
    IF plugin.create_raises
    THEN [reg |-> [reg EXCEPT !.plugins = Put(@, plugin.name,
                          [version |-> plugin.version, made |-> plugin.made])],
          returned |-> PyNone, raised |-> TRUE]
    ELSE [reg |-> [plugins |-> Put(reg.plugins, plugin.name,
                          [version |-> plugin.version, made |-> plugin.made]),
                   widget_classes |-> Put(reg.widget_classes, plugin.name,
                                          plugin_class(plugin.name))],
          returned |-> Some(TRUE), raised |-> FALSE]

\* PluginManager.register_plugin: [reg, returned, raised]
register_plugin(reg, plugin) ==
    IF /\ plugin.name \in DOMAIN reg.plugins
       /\ reg.plugins[plugin.name].version = plugin.version
    THEN [reg |-> reg, returned |-> Some(FALSE), raised |-> FALSE]
    ELSE register_plugin_overwrite(reg, plugin)

\* __import__(f"{plugin_subdir}.{module_name}") succeeds
import_ok(faults, m) ==
    /\ \A p \in PackageInitImports : faults[p] # "import"
    /\ faults[m] # "import"

\* The body of the loop of load_plugins_from_directory for one file; every
\* exception is swallowed
load_module(reg, faults, m, call) ==
    IF ~import_ok(faults, m) THEN reg
    ELSE IF ~module_plugin(m).subclass THEN reg
    ELSE IF faults[m] = "instantiate" THEN reg
    ELSE register_plugin(reg, [name |-> module_plugin(m).name,
                               version |-> "1.0.0", made |-> call,
                               create_raises |-> faults[m] = "register"]).reg

\* load_plugins_from_directory, the files listed in the given order
RECURSIVE load_plugins_from_directory(_, _, _, _)
load_plugins_from_directory(reg, faults, listing, call) ==
    IF listing = <<>> THEN reg
    ELSE load_plugins_from_directory(load_module(reg, faults, Head(listing), call),
                                     faults, Tail(listing), call)

\* Plugins registered from outside the directory scan
ExternalPlugins ==
    { [name |-> "Clock", version |-> "1.0.0"],
      [name |-> "Clock", version |-> "2.0.0"],
      [name |-> "SimpleText", version |-> "1.0.0"] }

InitRegistry ==
    /\ widgets = <<>>
    /\ nextId = 1
    /\ zEdited = FALSE
    /\ result = NoResult
    /\ IdleSerial
    /\ IdleLoad
    /\ validation = NoResult
    /\ stopwatch = NoResult
    /\ countdown = NoResult
    /\ app = NoResult
    /\ IdleLate
    /\ \E faults \in Faults :
          plugin_manager = [op |-> "init", faults |-> faults, calls |-> 0,
                            reg |-> EmptyRegistry, before |-> EmptyRegistry,
                            returned |-> PyNone, raised |-> FALSE,
                            plugin |-> [name |-> "", version |-> ""]]

RegistryFrame ==
    UNCHANGED <<layoutVars, serialVars, loadVars, validation, stopwatch,
                countdown, app, lateVars>>

\* plugin_manager.load_all_plugins(): one plugin path
LoadAllPlugins ==
    /\ plugin_manager.calls < MaxCalls
    /\ \E listing \in ScanOrders :
          plugin_manager' =
              [plugin_manager EXCEPT
                  !.op = "load_all_plugins",
                  !.calls = @ + 1,
                  !.before = plugin_manager.reg,
                  !.reg = load_plugins_from_directory(plugin_manager.reg,
                              plugin_manager.faults, listing,
                              plugin_manager.calls + 1),
                  !.returned = PyNone,
                  !.raised = FALSE]
    /\ RegistryFrame

\* plugin_manager.register_plugin(plugin) with a fresh plugin instance
RegisterPlugin ==
    /\ plugin_manager.calls < MaxCalls
    /\ \E p \in ExternalPlugins :
          LET r == register_plugin(plugin_manager.reg,
                       [name |-> p.name, version |-> p.version,
                        made |-> plugin_manager.calls + 1,
                        create_raises |-> FALSE])
          IN  plugin_manager' =
                  [plugin_manager EXCEPT
                      !.op = "register_plugin",
                      !.calls = @ + 1,
                      !.before = plugin_manager.reg,
                      !.reg = r.reg,
                      !.returned = r.returned,
                      !.raised = r.raised,
                      !.plugin = p]
    /\ RegistryFrame

\* PluginManager.unregister_plugin
unregister_plugin(reg, name) ==
    [plugins |-> Without(reg.plugins, {name}),
     widget_classes |-> Without(reg.widget_classes, {name})]

\* plugin_manager.register_plugin(plugin) with a plugin whose create_widget
\* raises: the exception leaves register_plugin
RegisterRaisingPlugin ==
    /\ plugin_manager.calls < MaxCalls
    /\ \E p \in ExternalPlugins :
          LET r == register_plugin(plugin_manager.reg,
                       [name |-> p.name, version |-> p.version,
                        made |-> plugin_manager.calls + 1,
                        create_raises |-> TRUE])
          IN  plugin_manager' =
                  [plugin_manager EXCEPT
                      !.op = "register_plugin",
                      !.calls = @ + 1,
                      !.before = plugin_manager.reg,
                      !.reg = r.reg,
                      !.returned = r.returned,
                      !.raised = r.raised,
                      !.plugin = p]
    /\ RegistryFrame

\* plugin_manager.unregister_plugin(name)
UnregisterPlugin ==
    /\ plugin_manager.calls < MaxCalls
    /\ \E p \in ExternalPlugins :
          plugin_manager' =
              [plugin_manager EXCEPT
                  !.op = "unregister_plugin",
                  !.calls = @ + 1,
                  !.before = plugin_manager.reg,
                  !.reg = unregister_plugin(plugin_manager.reg, p.name),
                  !.returned = PyNone,
                  !.raised = FALSE,
                  !.plugin = p]
    /\ RegistryFrame

NextRegistry ==
    \/ LoadAllPlugins
    \/ RegisterPlugin
    \/ RegisterRaisingPlugin
    \/ UnregisterPlugin

SpecRegistry == InitRegistry /\ [][NextRegistry]_vars

---------------------------------------------------------------------------
(* Claims about the registry (checked under SpecRegistry)                  *)

\* Every plugin the directory scan can register is registered at its
\* version
Loaded(reg, faults) ==
    \A m \in Modules :
        (/\ import_ok(faults, m)
         /\ module_plugin(m).subclass
         /\ faults[m] # "instantiate")
        => /\ module_plugin(m).name \in DOMAIN reg.plugins
           /\ reg.plugins[module_plugin(m).name].version = "1.0.0"

\* C17: register_plugin with the name and version of a registered plugin
\* returns False, does not raise and leaves both maps and the registered
\* instance as they were; load_all_plugins on a loaded registry changes
\* nothing.
C17_DuplicateRegistrationNoOp ==
    /\ (/\ plugin_manager.op = "register_plugin"
        /\ plugin_manager.plugin.name \in DOMAIN plugin_manager.before.plugins
        /\ plugin_manager.before.plugins[plugin_manager.plugin.name].version
               = plugin_manager.plugin.version)
       => /\ plugin_manager.returned = Some(FALSE)
          /\ ~plugin_manager.raised
          /\ plugin_manager.reg = plugin_manager.before
    /\ (/\ plugin_manager.op = "load_all_plugins"
        /\ Loaded(plugin_manager.before, plugin_manager.faults))
       => plugin_manager.reg = plugin_manager.before

\* A fresh Clock 1.0.0 plugin instance is registered after discovery
\* registered one: the call returns False and the first instance stays.
C17_Witness ==
    /\ plugin_manager.op = "register_plugin"
    /\ plugin_manager.plugin = [name |-> "Clock", version |-> "1.0.0"]
    /\ DOMAIN plugin_manager.before.widget_classes = Discovered
    /\ plugin_manager.calls = 2
    /\ plugin_manager.returned = Some(FALSE)
    /\ plugin_manager.reg.plugins["Clock"].made = 1

\* C18: after load_plugins_from_directory, whatever modules failed at
\* import, instantiation or registration and whatever the scan order, the
\* call has not raised and the plugin class of every module without a
\* fault is registered with its widget class.
C18_BestEffortPerModule ==
    plugin_manager.op = "load_all_plugins" =>
        /\ ~plugin_manager.raised
        /\ \A m \in Modules :
              (plugin_manager.faults[m] = "none" /\ module_plugin(m).subclass)
              => /\ module_plugin(m).name \in DOMAIN plugin_manager.reg.plugins
                 /\ module_plugin(m).name \in DOMAIN plugin_manager.reg.widget_classes

\* C29: after every register_plugin, unregister_plugin and directory load,
\* plugins and widget_classes hold the same names.
C29_MapsHoldSameNames ==
    DOMAIN plugin_manager.reg.plugins = DOMAIN plugin_manager.reg.widget_classes

---------------------------------------------------------------------------
(* SpecApp: PixoomatApp.update_display and the loop of run                 *)
(*                                                                         *)
(* Time is in whole seconds.  last_update is None for datetime.min.  The   *)
(* widgets of the layout are records [id, cls, visible].  A tick logs the  *)
(* calls it completed: device calls (fill, draw_filled_rectangle,          *)
(* draw_text, push) and the get_render_data calls of the widgets.          *)

AppClasses == {"ClockWidget", "SimpleTextWidget", "ProgressBarWidget"}
UpdateIntervals == {1, 2, 3}

\* widget.get_render_data() followed by _render_widget_data: a text record
\* draws the text, after a filled rectangle when it carries a background
\* color (SimpleText); the record of a progress bar has no branch
render_steps(w) ==
    <<[call |-> "get_render_data", id |-> w.id]>> \o
    CASE w.cls = "ClockWidget" -> <<[call |-> "draw_text", id |-> w.id]>>
      [] w.cls = "SimpleTextWidget" ->
             <<[call |-> "draw_filled_rectangle", id |-> w.id],
               [call |-> "draw_text", id |-> w.id]>>
      [] OTHER -> <<>>

RECURSIVE render_all(_)
render_all(ws) ==
    IF ws = <<>> THEN <<>>
    ELSE (IF Head(ws).visible THEN render_steps(Head(ws)) ELSE <<>>)
         \o render_all(Tail(ws))

\* The calls of the try block of update_display when none raises
frame_steps(ws) ==
    <<[call |-> "fill", id |-> None]>> \o render_all(ws)
        \o <<[call |-> "push", id |-> None]>>

\* now - last_update >= config.update_interval
is_due(now, last_update, interval) ==
    last_update = PyNone \/ now - last_update[1] >= interval

update_display_stamp_always(a, fail_at) ==
    IF ~a.connected \/ ~is_due(a.now, a.last_update, a.interval)
    THEN [calls |-> <<>>, last_update |-> a.last_update, raised |-> FALSE,
          escaped |-> FALSE]
    ELSE LET steps == frame_steps(a.layout)
         IN  [calls |-> IF fail_at \in 1 .. Len(steps)
                        THEN SubSeq(steps, 1, fail_at - 1) ELSE steps,
              last_update |-> Some(a.now),
              raised |-> fail_at \in 1 .. Len(steps),
              escaped |-> FALSE]

update_display_no_due_check(a, fail_at) ==
    IF ~a.connected
    THEN [calls |-> <<>>, last_update |-> a.last_update, raised |-> FALSE,
          escaped |-> FALSE]
    ELSE LET steps == frame_steps(a.layout)
         IN  IF fail_at \in 1 .. Len(steps)
             THEN [calls |-> SubSeq(steps, 1, fail_at - 1),
                   last_update |-> a.last_update, raised |-> TRUE,
                   escaped |-> FALSE]
             ELSE [calls |-> steps, last_update |-> Some(a.now),
                   raised |-> FALSE, escaped |-> FALSE]

\* PixoomatApp.update_display; the call number fail_at of the frame raises
\* an Exception (0: none does).  The result holds the completed calls,
\* last_update, whether a call raised, and whether the exception left
\* update_display (the except clause catches it).
update_display_app(a, fail_at) ==
    IF ~a.connected \/ ~is_due(a.now, a.last_update, a.interval)
    THEN [calls |-> <<>>, last_update |-> a.last_update, raised |-> FALSE,
          escaped |-> FALSE]
    ELSE LET steps == frame_steps(a.layout)
         IN  IF fail_at \in 1 .. Len(steps)
             THEN [calls |-> SubSeq(steps, 1, fail_at - 1),
                   last_update |-> a.last_update, raised |-> TRUE,
                   escaped |-> FALSE]
             ELSE [calls |-> steps, last_update |-> Some(a.now),
                   raised |-> FALSE, escaped |-> FALSE]

AppWidgets == [cls : AppClasses, visible : BOOLEAN]

AppLayouts ==
    UNION { [1 .. n -> AppWidgets] : n \in 0 .. MaxWidgets }

InitApp ==
    /\ widgets = <<>>
    /\ nextId = 1
    /\ zEdited = FALSE
    /\ result = NoResult
    /\ IdleSerial
    /\ IdleLoad
    /\ validation = NoResult
    /\ stopwatch = NoResult
    /\ countdown = NoResult
    /\ plugin_manager = NoResult
    /\ IdleLate
    /\ \E l \in AppLayouts, interval \in UpdateIntervals :
          app = [op |-> "init", now |-> 0, last_update |-> PyNone,
                 running |-> FALSE, connected |-> FALSE, interval |-> interval,
                 layout |-> [i \in 1 .. Len(l) |->
                                [id |-> i, cls |-> l[i].cls, visible |-> l[i].visible]],
                 calls |-> <<>>, raised |-> FALSE, escaped |-> FALSE,
                 fail_at |-> 0, before |-> PyNone, retry |-> FALSE]

AppFrame ==
    UNCHANGED <<layoutVars, serialVars, loadVars, validation, stopwatch,
                countdown, plugin_manager, lateVars>>

\* run: the device is connected and the loop is entered
AppRun ==
    /\ ~app.running
    /\ ~app.connected
    /\ app' = [app EXCEPT !.op = "run", !.connected = TRUE, !.running = TRUE]
    /\ AppFrame

\* One iteration of the loop of run, or a call of update_display before
\* run: update_display(), then a second passes; an exception that leaves
\* update_display leaves the loop
AppTick ==
    /\ app.running \/ ~app.connected
    /\ app.now < MaxTime
    /\ \E fail_at \in 0 .. Len(frame_steps(app.layout)) :
          LET r == update_display_app(app, fail_at)
          IN  app' = [app EXCEPT
                         !.op = "update_display",
                         !.now = @ + 1,
                         !.before = app.last_update,
                         !.retry = app.op = "update_display" /\ app.raised,
                         !.fail_at = fail_at,
                         !.calls = r.calls,
                         !.last_update = r.last_update,
                         !.raised = r.raised,
                         !.escaped = r.escaped,
                         !.running = @ /\ ~r.escaped]
    /\ AppFrame

\* _signal_handler
AppSignal ==
    /\ app.running
    /\ app' = [app EXCEPT !.op = "signal", !.running = FALSE]
    /\ AppFrame

NextApp ==
    \/ AppRun
    \/ AppTick
    \/ AppSignal

SpecApp == InitApp /\ [][NextApp]_vars

---------------------------------------------------------------------------
(* Claims about the application loop (checked under SpecApp)               *)

\* The time at which the tick recorded in app ran update_display
TickTime == app.now - 1

TickDue ==
    /\ app.connected
    /\ (app.before = PyNone \/ TickTime - app.before[1] >= app.interval)

CallNames == [i \in 1 .. Len(app.calls) |-> app.calls[i].call]

VisibleIds ==
    LET vis == SelectSeq(app.layout, LAMBDA w : w.visible)
    IN  [i \in 1 .. Len(vis) |-> vis[i].id]

RenderedIds ==
    LET rs == SelectSeq(app.calls, LAMBDA c : c.call = "get_render_data")
    IN  [i \in 1 .. Len(rs) |-> rs[i].id]

\* C19: a tick makes device calls only when a device is connected and the
\* time since last_update is at least config.update_interval; a due tick
\* in which no call raises calls fill first, then renders every visible
\* widget, then calls push last, and stamps last_update; last_update is
\* stamped only in a tick that pushed.
C19_RenderOnlyWhenDue ==
    app.op = "update_display" =>
        /\ ~TickDue => (app.calls = <<>> /\ app.last_update = app.before)
        /\ (TickDue /\ ~app.raised) =>
              /\ Len(app.calls) >= 2
              /\ \A i \in 1 .. Len(app.calls) :
                    /\ CallNames[i] = "fill" <=> i = 1
                    /\ CallNames[i] = "push" <=> i = Len(app.calls)
              /\ RenderedIds = VisibleIds
              /\ app.last_update = Some(TickTime)
        /\ app.last_update # app.before =>
              (app.calls # <<>> /\ CallNames[Len(app.calls)] = "push")

\* A due tick over two visible widgets, after an earlier frame was stamped.
C19_Witness ==
    /\ app.op = "update_display"
    /\ TickDue
    /\ ~app.raised
    /\ app.before # PyNone
    /\ Len(VisibleIds) = 2
    /\ Len(app.calls) >= 5
    /\ app.last_update = Some(TickTime)

\* C20: when a call of the frame raises inside update_display, the
\* exception does not escape, running stays true and last_update is left as
\* it was; the tick after a failed tick attempts the frame again.
C20_FailureNeverStopsLoop ==
    app.op = "update_display" =>
        /\ app.raised =>
              /\ ~app.escaped
              /\ app.running
              /\ app.last_update = app.before
        /\ (app.retry /\ app.connected) =>
              (TickDue /\ (app.calls # <<>> \/ app.fail_at = 1))

\* A tick in which push raised, after a tick in which a draw raised.
C20_Witness ==
    /\ app.op = "update_display"
    /\ app.retry
    /\ app.raised
    /\ app.running
    /\ app.fail_at = Len(frame_steps(app.layout))
    /\ Len(app.calls) >= 2

---------------------------------------------------------------------------
(* SpecRun: PixoomatApp.run as a process                                   *)
(*                                                                         *)
(* proc.pc is the statement run is at: "validate", "connect" (the choice   *)
(* between discover_and_connect and connect_to_device), "attempt" (the     *)
(* head of the for loop of connect_to_device), "start" (self.running =     *)
(* True), "loop" (the while test), "tick" (update_display and sleep),      *)
(* "cleanup" and "returned".  The signal handler runs between any two of   *)
(* them.  ret is None until run returns.                                   *)

MaxRetries == 3
MaxTicks == 2

\* One iteration of the for loop of connect_to_device: the connection is
\* made and tested (ok) or raises; a failure is followed by a sleep of
\* 2 ** attempt seconds unless it was the last attempt
connect_attempt_always_waits(c, ok) ==
    IF ok THEN [c EXCEPT !.attempts = @ + 1, !.pixoo = TRUE,
                         !.connect_result = Some(TRUE)]
    ELSE [c EXCEPT !.attempts = @ + 1, !.attempt = @ + 1,
                   !.waits = Append(@, 2 ^ c.attempt)]

connect_attempt(c, ok) ==
    IF ok THEN [c EXCEPT !.attempts = @ + 1, !.pixoo = TRUE,
                         !.connect_result = Some(TRUE)]
    ELSE [c EXCEPT !.attempts = @ + 1, !.attempt = @ + 1,
                   !.waits = IF c.attempt < c.retries - 1
                             THEN Append(@, 2 ^ c.attempt) ELSE @]

\* The cleanup of run: fill((0, 0, 0)) and push() inside try / except: pass;
\* fail_at names the call that raises (0: none)
clear_screen(fail_at) ==
    CASE fail_at = 1 -> <<>>
      [] fail_at = 2 -> <<"fill">>
      [] OTHER -> <<"fill", "push">>

InitRun ==
    /\ widgets = <<>>
    /\ nextId = 1
    /\ zEdited = FALSE
    /\ result = NoResult
    /\ IdleSerial
    /\ IdleLoad
    /\ validation = NoResult
    /\ stopwatch = NoResult
    /\ countdown = NoResult
    /\ plugin_manager = NoResult
    /\ app = NoResult
    /\ weather = NoResult
    /\ render = NoResult
    /\ undo = NoResult
    /\ \E errors \in BOOLEAN, auto_discover \in BOOLEAN, ip_address \in BOOLEAN,
          retries \in 0 .. MaxRetries :
          proc = [pc |-> "validate", errors |-> errors,
                  auto_discover |-> auto_discover, ip_address |-> ip_address,
                  retries |-> retries, attempt |-> 0, attempts |-> 0,
                  waits |-> <<>>, connect_result |-> PyNone, pixoo |-> FALSE,
                  running |-> FALSE, ticks |-> 0, ret |-> PyNone,
                  signalled |-> FALSE, signalled_in_loop |-> FALSE,
                  ever_running |-> FALSE, late_ticks |-> 0,
                  clears |-> <<>>]

RunFrame ==
    UNCHANGED <<layoutVars, serialVars, loadVars, validation, stopwatch,
                countdown, plugin_manager, app, weather, render, undo>>

\* errors = self.config.validate(); if errors: return 1
RunValidate ==
    /\ proc.pc = "validate"
    /\ proc' = IF proc.errors
               THEN [proc EXCEPT !.pc = "returned", !.ret = Some(1)]
               ELSE [proc EXCEPT !.pc = "connect"]
    /\ RunFrame

\* discover_and_connect up to its call of connect_to_device, or the head of
\* connect_to_device: without a device found, or without an IP address,
\* False is returned and run returns 1
RunConnect ==
    /\ proc.pc = "connect"
    /\ \/ /\ proc.auto_discover
          /\ \E found \in BOOLEAN :
                proc' = IF found
                        THEN [proc EXCEPT !.pc = "attempt", !.ip_address = TRUE]
                        ELSE [proc EXCEPT !.pc = "returned",
                                          !.connect_result = Some(FALSE),
                                          !.ret = Some(1)]
       \/ /\ ~proc.auto_discover
          /\ proc' = IF proc.ip_address
                     THEN [proc EXCEPT !.pc = "attempt"]
                     ELSE [proc EXCEPT !.pc = "returned",
                                       !.connect_result = Some(FALSE),
                                       !.ret = Some(1)]
    /\ RunFrame

\* for attempt in range(connection_retries): one iteration, or the end of
\* the loop (return False, and run returns 1)
ConnectAttempt ==
    /\ proc.pc = "attempt"
    /\ IF proc.attempt >= proc.retries
       THEN proc' = [proc EXCEPT !.pc = "returned",
                                 !.connect_result = Some(FALSE),
                                 !.ret = Some(1)]
       ELSE \E ok \in BOOLEAN :
               LET c == connect_attempt(proc, ok)
               IN  proc' = IF ok THEN [c EXCEPT !.pc = "start"] ELSE c
    /\ RunFrame

\* self.running = True
RunStart ==
    /\ proc.pc = "start"
    /\ proc' = [proc EXCEPT !.pc = "loop", !.running = TRUE,
                            !.ever_running = TRUE]
    /\ RunFrame

RunLoopTest_while_true ==
    /\ proc.pc = "loop"
    /\ proc' = [proc EXCEPT !.pc = "tick",
                            !.late_ticks = IF proc.signalled_in_loop
                                           THEN @ + 1 ELSE @]
    /\ RunFrame

\* while self.running
RunLoopTest ==
    /\ proc.pc = "loop"
    /\ proc' = IF proc.running
               THEN [proc EXCEPT !.pc = "tick",
                                 !.late_ticks = IF proc.signalled_in_loop
                                                THEN @ + 1 ELSE @]
               ELSE [proc EXCEPT !.pc = "cleanup"]
    /\ RunFrame

\* self.update_display(); time.sleep(1)
RunTick ==
    /\ proc.pc = "tick"
    /\ proc' = [proc EXCEPT !.pc = "loop", !.ticks = Min2(@ + 1, MaxTicks)]
    /\ RunFrame

\* if self.pixoo: try: fill, push; except: pass -- then return 0
RunCleanup ==
    /\ proc.pc = "cleanup"
    /\ \E fail_at \in 0 .. 2 :
          proc' = [proc EXCEPT
                      !.pc = "returned",
                      !.clears = IF proc.pixoo
                                 THEN Append(@, clear_screen(fail_at)) ELSE @,
                      !.ret = Some(0)]
    /\ RunFrame

\* _signal_handler, installed by __init__
SignalHandler ==
    /\ proc.pc # "returned"
    /\ proc' = [proc EXCEPT !.running = FALSE, !.signalled = TRUE,
                            !.signalled_in_loop = @ \/ proc.pc \in {"loop", "tick"}]
    /\ RunFrame

RunStep ==
    \/ RunValidate
    \/ RunConnect
    \/ ConnectAttempt
    \/ RunStart
    \/ RunLoopTest
    \/ RunTick
    \/ RunCleanup

NextRun ==
    \/ RunValidate
    \/ RunConnect
    \/ ConnectAttempt
    \/ RunStart
    \/ RunLoopTest
    \/ RunTick
    \/ RunCleanup
    \/ SignalHandler

SpecRun == InitRun /\ [][NextRun]_vars

\* The main thread keeps running: every statement of run returns
SpecRunFair == InitRun /\ [][NextRun]_vars /\ WF_vars(RunStep)

---------------------------------------------------------------------------
(* Claims about run (checked under SpecRun and SpecRunFair)                *)

\* The connection attempts that failed so far
FailedAttempts ==
    IF proc.connect_result = Some(TRUE) THEN proc.attempts - 1 ELSE proc.attempts

C21_Bounded ==
    /\ proc.attempts <= proc.retries
    /\ proc.waits = [i \in 1 .. Len(proc.waits) |-> 2 ^ (i - 1)]
    /\ Len(proc.waits) = Min2(FailedAttempts, Max2(proc.retries - 1, 0))
    /\ proc.pc = "attempt" => proc.connect_result = PyNone
    /\ (proc.connect_result = Some(FALSE) /\ proc.attempts > 0) =>
          FailedAttempts = proc.retries

\* C21: connect_to_device makes at most connection_retries attempts, stops
\* attempting at the first success and returns True, sleeps 1, 2, 4, ...
\* seconds after each failed attempt but the last, returns False when all
\* attempts failed, and always returns.
C21_ConnectRetriesBounded ==
    /\ []C21_Bounded
    /\ (proc.pc = "attempt") ~> (proc.connect_result # PyNone)

\* All three attempts failed: two sleeps, of 1 and of 2 seconds.
C21_Witness ==
    /\ proc.connect_result = Some(FALSE)
    /\ proc.retries = 3
    /\ proc.attempts = 3
    /\ proc.waits = <<1, 2>>

\* C22: run returns non-zero only when config.validate() reported an error,
\* in which case no connection attempt was made, or when all
\* connection_retries attempts were made and failed; on these paths running
\* was never set and no tick ran, and once the loop has started run does not
\* return non-zero.
C22_NonZeroOnlyOnFatalPaths ==
    /\ proc.errors => proc.attempts = 0
    /\ (proc.ret # PyNone /\ proc.ret # Some(0)) =>
          /\ ~proc.ever_running
          /\ proc.ticks = 0
          /\ \/ proc.errors
             \/ (proc.attempts = proc.retries /\ FailedAttempts = proc.retries)
    /\ proc.ever_running => proc.ret \in {PyNone, Some(0)}

\* C23: after the signal handler ran while the loop was running, running is
\* false, no further tick starts, at most one clear-screen attempt is made,
\* run returns 0 after exactly one such attempt whether or not it raised,
\* and run eventually returns.
C23_Shutdown ==
    proc.signalled_in_loop =>
        /\ ~proc.running
        /\ proc.late_ticks = 0
        /\ Len(proc.clears) <= 1
        /\ proc.pc = "returned" =>
              /\ proc.ret = Some(0)
              /\ Len(proc.clears) = 1
              /\ proc.clears[1] \in {<<>>, <<"fill">>, <<"fill", "push">>}

C23_ShutdownReturns ==
    /\ []C23_Shutdown
    /\ proc.signalled_in_loop ~> (proc.pc = "returned" /\ proc.ret = Some(0))

\* The signal arrived during a tick; the clear-screen push raised.
C23_Witness ==
    /\ proc.signalled_in_loop
    /\ proc.pc = "returned"
    /\ proc.ticks >= 1
    /\ proc.clears = << <<"fill">> >>

\* C26: once the signal handler has run, at any statement of run, running
\* is false and stays false.
C26_SignalNeverOverwritten ==
    proc.signalled => ~proc.running

---------------------------------------------------------------------------
(* SpecWeather: WeatherService.get_weather and its fetch workers           *)
(*                                                                         *)
(* weather.pc is the statement of get_weather the calling thread is at     *)
(* ("idle": not in a call).  workers[i] is the thread started by call i:   *)
(* its pc ("none": not started) and the outcome of its requests.  Time is  *)
(* in whole seconds; last_fetch is None for its initial 0.  The payload of *)
(* the fetch of worker i is i.                                             *)

CacheDurations == {0, 1}

WorkerOutcomes == {"ok", "no_location", "raises", "no_current_weather"}

\* time.time() - self.last_fetch > self.cache_duration
is_stale(w) ==
    w.last_fetch = PyNone \/ w.now - w.last_fetch[1] > w.cache_duration

should_start_ignoring_flag(w) == is_stale(w)

\* get_weather: the two tests that guard the start of a worker
should_start(w) == is_stale(w) /\ ~w.is_updating

worker_next_writes_always(wk) ==
    CASE wk.pc = "start" -> "fetch"
      [] wk.pc = "fetch" -> "write_cache"
      [] wk.pc = "write_cache" -> "write_time"
      [] wk.pc = "write_time" -> "finally"
      [] OTHER -> "done"

worker_next_no_finally(wk) ==
    CASE wk.pc = "start" ->
             IF wk.outcome = "no_location" THEN "done" ELSE "fetch"
      [] wk.pc = "fetch" ->
             IF wk.outcome = "ok" THEN "write_cache" ELSE "finally"
      [] wk.pc = "write_cache" -> "write_time"
      [] wk.pc = "write_time" -> "finally"
      [] OTHER -> "done"

\* _fetch_weather_sync: the statement after the one at wk.pc.  "start" is
\* get_location, "fetch" the request and the test for current_weather,
\* "write_cache" and "write_time" the two assignments, "finally" the
\* finally clause
worker_next(wk) ==
    CASE wk.pc = "start" ->
             IF wk.outcome = "no_location" THEN "finally" ELSE "fetch"
      [] wk.pc = "fetch" ->
             IF wk.outcome = "ok" THEN "write_cache" ELSE "finally"
      [] wk.pc = "write_cache" -> "write_time"
      [] wk.pc = "write_time" -> "finally"
      [] OTHER -> "done"

\* The effect of the statement at workers[i].pc on the service
worker_effect(w, i) ==
    CASE w.workers[i].pc = "write_cache" -> [w EXCEPT !.cached_weather = Some(i)]
      [] w.workers[i].pc = "write_time" -> [w EXCEPT !.last_fetch = Some(w.now)]
      [] w.workers[i].pc = "finally" -> [w EXCEPT !.is_updating = FALSE]
      [] OTHER -> w

InFlight(w) ==
    { i \in 1 .. MaxCalls : w.workers[i].pc \notin {"none", "done"} }

InitWeather ==
    /\ widgets = <<>>
    /\ nextId = 1
    /\ zEdited = FALSE
    /\ result = NoResult
    /\ IdleSerial
    /\ IdleLoad
    /\ validation = NoResult
    /\ stopwatch = NoResult
    /\ countdown = NoResult
    /\ plugin_manager = NoResult
    /\ app = NoResult
    /\ proc = NoResult
    /\ render = NoResult
    /\ undo = NoResult
    /\ \E d \in CacheDurations :
          weather = [pc |-> "idle", now |-> 0, cache_duration |-> d,
                     last_fetch |-> PyNone, cached_weather |-> PyNone,
                     is_updating |-> FALSE, calls |-> 0,
                     workers |-> [i \in 1 .. MaxCalls |->
                                     [pc |-> "none", outcome |-> "ok"]],
                     returned |-> PyNone, returns |-> 0]

WeatherFrame ==
    UNCHANGED <<layoutVars, serialVars, loadVars, validation, stopwatch,
                countdown, plugin_manager, app, proc, render, undo>>

\* A second passes
WeatherTick ==
    /\ weather.now < MaxTime
    /\ weather' = [weather EXCEPT !.now = @ + 1]
    /\ WeatherFrame

\* The loop thread calls get_weather and evaluates the two tests
GetWeatherCall ==
    /\ weather.pc = "idle"
    /\ weather.calls < MaxCalls
    /\ weather' = [weather EXCEPT
                      !.calls = @ + 1,
                      !.pc = IF should_start(weather) THEN "set" ELSE "return"]
    /\ WeatherFrame

\* self._is_updating = True
GetWeatherSet ==
    /\ weather.pc = "set"
    /\ weather' = [weather EXCEPT !.pc = "spawn", !.is_updating = TRUE]
    /\ WeatherFrame

\* self._update_thread.start()
GetWeatherSpawn ==
    /\ weather.pc = "spawn"
    /\ \E outcome \in WorkerOutcomes :
          weather' = [weather EXCEPT
                         !.pc = "return",
                         !.workers[weather.calls] =
                             [pc |-> "start", outcome |-> outcome]]
    /\ WeatherFrame

\* return self.cached_weather
GetWeatherReturn ==
    /\ weather.pc = "return"
    /\ weather' = [weather EXCEPT !.pc = "idle",
                                  !.returned = weather.cached_weather,
                                  !.returns = @ + 1]
    /\ WeatherFrame

\* One statement of a worker thread
WorkerStep ==
    /\ \E i \in InFlight(weather) :
          weather' = [worker_effect(weather, i) EXCEPT
                         !.workers[i].pc = worker_next(weather.workers[i])]
    /\ WeatherFrame

CallerStep ==
    \/ GetWeatherSet
    \/ GetWeatherSpawn
    \/ GetWeatherReturn

NextWeather ==
    \/ WeatherTick
    \/ GetWeatherCall
    \/ GetWeatherSet
    \/ GetWeatherSpawn
    \/ GetWeatherReturn
    \/ WorkerStep

SpecWeather == InitWeather /\ [][NextWeather]_vars

\* Both threads are scheduled, and every request returns or times out
SpecWeatherFair ==
    InitWeather /\ [][NextWeather]_vars /\ WF_vars(CallerStep) /\ WF_vars(WorkerStep)

---------------------------------------------------------------------------
(* Claims about the weather service (checked under SpecWeather and         *)
(* SpecWeatherFair)                                                        *)

\* The worker that takes the step from weather to weather'
Stepping(i) == weather'.workers[i].pc # weather.workers[i].pc

C24_Step ==
    /\ weather'.returns # weather.returns =>
          weather'.returned = weather.cached_weather
    /\ weather'.cached_weather # weather.cached_weather =>
          \E i \in InFlight(weather) :
              /\ Stepping(i)
              /\ weather.workers[i].outcome = "ok"
              /\ weather.workers[i].pc = "write_cache"
              /\ weather'.cached_weather = Some(i)
    /\ \A i \in InFlight(weather) :
          (Stepping(i) /\ weather.workers[i].outcome # "ok") =>
              /\ weather'.cached_weather = weather.cached_weather
              /\ weather'.last_fetch = weather.last_fetch

\* C24: a get_weather call in progress can always take its next statement,
\* whatever the workers do, and returns the value cached_weather has at
\* that moment; cached_weather changes only when a worker whose fetch
\* succeeded assigns its payload; a worker whose fetch failed, found no
\* location or got no current_weather changes neither cached_weather nor
\* last_fetch.
C24_GetWeatherNeverWaits ==
    /\ [](weather.pc # "idle" => ENABLED CallerStep)
    /\ [][C24_Step]_vars

\* The second call returned the payload of the first fetch while another
\* worker was in flight.
C24_Witness ==
    /\ weather.pc = "idle"
    /\ weather.returns >= 2
    /\ weather.returned = Some(1)
    /\ InFlight(weather) # {}

C25_OneWorker ==
    /\ Cardinality(InFlight(weather)) <= 1
    /\ InFlight(weather) # {} => weather.is_updating
    /\ weather.pc = "spawn" => (weather.is_updating /\ InFlight(weather) = {})

C27_FlagEventuallyCleared ==
    /\ weather.is_updating ~> ~weather.is_updating
    /\ [][(weather.pc = "idle" /\ weather'.pc # "idle"
           /\ is_stale(weather) /\ ~weather.is_updating) =>
              weather'.pc = "set"]_vars

\* After a fetch that found no location, the next call started a worker.
C27_Witness ==
    /\ weather.workers[1].pc = "done"
    /\ weather.workers[1].outcome = "no_location"
    /\ ~weather.is_updating
    /\ weather.workers[2].pc = "done"
    /\ weather.cached_weather = Some(2)

---------------------------------------------------------------------------
(* SpecRender: get_render_data and _render_widget_data for text widgets    *)
(*                                                                         *)
(* A widget is [cls, x, y, color], color being the value of the property   *)
(* its class reads for the text color.  A device call is [call, id, xy,    *)
(* rgb].                                                                   *)

TextClasses ==
    { "ClockWidget", "WeatherWidget", "DateWidget", "CountdownWidget",
      "StopwatchWidget", "SimpleTextWidget" }

RenderPositions == { <<0, 0>>, <<10, 20>>, <<30, 5>> }
RenderColors == { White, <<255, 0, 0>> }

\* get_render_data of the text widgets, without the text: Clock, Weather
\* and SimpleText give 'x' and 'y', Date, Countdown and Stopwatch give
\* 'position'
text_render_data(w) ==
    CASE w.cls \in {"ClockWidget", "WeatherWidget"} ->
             [type |-> "text", x |-> w.x, y |-> w.y, color |-> w.color,
              background_color |-> PyNone]
      [] w.cls = "SimpleTextWidget" ->
             [type |-> "text", x |-> w.x, y |-> w.y, color |-> w.color,
              background_color |-> Some(<<0, 0, 0, 0>>)]
      [] w.cls = "DateWidget" ->
             [type |-> "text", color |-> w.color, position |-> <<w.x, w.y>>]
      [] OTHER ->
             [type |-> "text", color |-> w.color, position |-> <<w.x, w.y>>,
              size |-> <<0, 0>>]

\* _render_widget_data for a record of type 'text': the device calls
render_widget_data(id, render_data) ==
    LET x == Get(render_data, "x", 0)
        y == Get(render_data, "y", 0)
        color == Get(render_data, "color", White)
        bg_color == Get(render_data, "background_color", PyNone)
    IN  (IF bg_color # PyNone
         THEN <<[call |-> "draw_filled_rectangle", id |-> id,
                 xy |-> <<x - 1, y - 1>>, rgb |-> bg_color[1]]>>
         ELSE <<>>)
        \o <<[call |-> "draw_text", id |-> id, xy |-> <<x, y>>, rgb |-> color]>>

\* update_display: the loop over the widgets (all visible)
RECURSIVE render_frame(_, _)
render_frame(ws, i) ==
    IF i > Len(ws) THEN <<>>
    ELSE render_widget_data(i, text_render_data(ws[i])) \o render_frame(ws, i + 1)

InitRender ==
    /\ widgets = <<>>
    /\ nextId = 1
    /\ zEdited = FALSE
    /\ result = NoResult
    /\ IdleSerial
    /\ IdleLoad
    /\ validation = NoResult
    /\ stopwatch = NoResult
    /\ countdown = NoResult
    /\ plugin_manager = NoResult
    /\ app = NoResult
    /\ proc = NoResult
    /\ weather = NoResult
    /\ undo = NoResult
    /\ \E c1 \in TextClasses, c2 \in TextClasses :
          render = [op |-> "init",
                    widgets |-> <<[cls |-> c1, x |-> 0, y |-> 0, color |-> White],
                                  [cls |-> c2, x |-> 0, y |-> 0, color |-> White]>>,
                    calls |-> <<>>]

RenderFrame ==
    UNCHANGED <<layoutVars, serialVars, loadVars, validation, stopwatch,
                countdown, plugin_manager, app, proc, weather, undo>>

\* widget.set_position(x, y)
RenderSetPosition ==
    /\ \E i \in 1 .. 2, xy \in RenderPositions :
          render' = [render EXCEPT !.op = "set_position",
                                   !.widgets[i].x = xy[1],
                                   !.widgets[i].y = xy[2]]
    /\ RenderFrame

\* widget.set_property of the text color
RenderSetColor ==
    /\ \E i \in 1 .. 2, c \in RenderColors :
          render' = [render EXCEPT !.op = "set_property", !.widgets[i].color = c]
    /\ RenderFrame

\* The widgets are rendered to the device
RenderWidgets ==
    /\ render' = [render EXCEPT !.op = "render",
                                !.calls = render_frame(render.widgets, 1)]
    /\ RenderFrame

NextRender ==
    \/ RenderSetPosition
    \/ RenderSetColor
    \/ RenderWidgets

SpecRender == InitRender /\ [][NextRender]_vars

---------------------------------------------------------------------------
(* Claims about the render pipeline (checked under SpecRender)             *)

TextCalls(id) ==
    SelectSeq(render.calls, LAMBDA c : c.call = "draw_text" /\ c.id = id)

\* C28: every text widget is drawn by one draw_text call at its own
\* (x, y) and in its record's color, so two text widgets at different
\* positions are drawn at different coordinates.
C28_TextDrawnAtWidgetPosition ==
    render.op = "render" =>
        /\ \A i \in 1 .. 2 :
              /\ Len(TextCalls(i)) = 1
              /\ TextCalls(i)[1].xy = <<render.widgets[i].x, render.widgets[i].y>>
              /\ TextCalls(i)[1].rgb = render.widgets[i].color
        /\ <<render.widgets[1].x, render.widgets[1].y>>
               # <<render.widgets[2].x, render.widgets[2].y>>
           => TextCalls(1)[1].xy # TextCalls(2)[1].xy


---------------------------------------------------------------------------
(* SpecUndo: the layout editor's operations with undo / redo               *)

MaxOps == 3              \* add / remove / move / duplicate operations in one behaviour

\* UndoManager.__init__: max_history
max_history == 50

\* Plugins the palette adds in SpecUndo
AddKinds == {"Clock", "ProgressBar"}

\* The arrow keys' offsets considered by _move_widget
MoveOffsets == { <<1, 0>>, <<0, -1>> }

EditorScreenSize == 64

\* UndoManager.save_state: push the operation, drop the oldest one when the
\* stack is over max_history, clear the redo stack
save_state(um, description, state) ==
    LET pushed == Append(um.undo_stack, [description |-> description, state |-> state])
    IN  [undo_stack |-> IF Len(pushed) > max_history THEN Tail(pushed) ELSE pushed,
         redo_stack |-> <<>>]

\* UndoManager.undo: the operation popped (an option) and the manager after
UndoManager_undo(um) ==
    IF um.undo_stack = <<>> THEN [operation |-> PyNone, um |-> um]
    ELSE LET operation == um.undo_stack[Len(um.undo_stack)]
         IN  [operation |-> Some(operation),
              um |-> [undo_stack |-> SubSeq(um.undo_stack, 1, Len(um.undo_stack) - 1),
                      redo_stack |-> Append(um.redo_stack, operation)]]

\* UndoManager.redo
UndoManager_redo(um) ==
    IF um.redo_stack = <<>> THEN [operation |-> PyNone, um |-> um]
    ELSE LET operation == um.redo_stack[Len(um.redo_stack)]
         IN  [operation |-> Some(operation),
              um |-> [undo_stack |-> Append(um.undo_stack, operation),
                      redo_stack |-> SubSeq(um.redo_stack, 1, Len(um.redo_stack) - 1)]]

\* copy.deepcopy(self.layout_manager.to_dict())
layout_state(ws) == LayoutManager_to_dict(EditorScreenSize, ws)

\* self.layout_manager = LayoutManager.from_dict(operation['state']); an
\* exception leaving from_dict leaves the old layout manager in place
restore_layout(ws, state) ==
    LET loaded == LayoutManager_from_dict(Discovered, state)
    IN  IF loaded.raised THEN ws ELSE loaded.widgets

\* list.remove of the object at index i
remove_at(ws, i) == [j \in 1 .. Len(ws) - 1 |-> IF j < i THEN ws[j] ELSE ws[j + 1]]

\* The ghost stacks follow save_state, undo and redo like the real ones and
\* keep, for each operation, the layout before and after it.
ghost_push(g, before, after) ==
    LET pushed == Append(g, [before |-> before, after |-> after])
    IN  IF Len(pushed) > max_history THEN Tail(pushed) ELSE pushed

UndoManagerOf(u) == [undo_stack |-> u.undo_stack, redo_stack |-> u.redo_stack]

PreOf(u) == [layout |-> u.layout, undo_stack |-> u.undo_stack,
             redo_stack |-> u.redo_stack]

\* selected is an option: idx is the widget's index in layout_manager.widgets,
\* 0 when the object belongs to a layout manager that undo / redo replaced
InitUndo ==
    /\ widgets = <<>>
    /\ nextId = 1
    /\ zEdited = FALSE
    /\ result = NoResult
    /\ IdleSerial
    /\ IdleLoad
    /\ validation = NoResult
    /\ stopwatch = NoResult
    /\ countdown = NoResult
    /\ plugin_manager = NoResult
    /\ app = NoResult
    /\ proc = NoResult
    /\ weather = NoResult
    /\ render = NoResult
    /\ undo = [last |-> "init", layout |-> <<>>, selected |-> PyNone,
               undo_stack |-> <<>>, redo_stack |-> <<>>, ops |-> 0,
               g_undo |-> <<>>, g_redo |-> <<>>, expected |-> PyNone,
               pre |-> [layout |-> <<>>, undo_stack |-> <<>>, redo_stack |-> <<>>]]

UndoFrame ==
    UNCHANGED <<layoutVars, serialVars, loadVars, validation, stopwatch,
                countdown, plugin_manager, app, proc, weather, render>>

\* The bookkeeping every operation that calls save_state shares
Operated(u, last, description, after, selected) ==
    LET um == save_state(UndoManagerOf(u), description, layout_state(u.layout))
    IN  [u EXCEPT !.last = last, !.layout = after, !.selected = selected,
                  !.undo_stack = um.undo_stack, !.redo_stack = um.redo_stack,
                  !.ops = @ + 1,
                  !.g_undo = ghost_push(@, u.layout, after), !.g_redo = <<>>,
                  !.expected = PyNone, !.pre = PreOf(u)]

\* _add_plugin_widget / _add_widget: a widget of the plugin at a random
\* position that fits on the screen
EditorAdd ==
    /\ undo.ops < MaxOps
    /\ \E name \in AddKinds :
          LET created == Construct(plugin_class(name), <<>>)
              width == Min2(created.width, EditorScreenSize)
              height == Min2(created.height, EditorScreenSize)
              max_x == Max2(0, EditorScreenSize - width)
              max_y == Max2(0, EditorScreenSize - height)
          IN  \E xy \in { <<0, 0>>, <<max_x, max_y>> } :
                 LET widget == [created EXCEPT !.width = width, !.height = height,
                                               !.x = xy[1], !.y = xy[2]]
                 IN  undo' = Operated(undo, "add", "Added widget",
                                      add_widget(undo.layout, widget), undo.selected)
    /\ UndoFrame

\* _remove_widget
EditorRemove ==
    /\ undo.ops < MaxOps
    /\ undo.selected # PyNone
    /\ LET idx == undo.selected[1].idx
       IN  undo' = Operated(undo, "remove", "Removed widget",
                            IF idx = 0 THEN undo.layout ELSE remove_at(undo.layout, idx),
                            PyNone)
    /\ UndoFrame

\* _move_widget(dx, dy)
EditorMove ==
    /\ undo.ops < MaxOps
    /\ undo.selected # PyNone
    /\ \E d \in MoveOffsets :
          LET sel == undo.selected[1]
              new_x == Max2(0, Min2(sel.w.x + d[1], EditorScreenSize - sel.w.width))
              new_y == Max2(0, Min2(sel.w.y + d[2], EditorScreenSize - sel.w.height))
              moved == [sel.w EXCEPT !.x = new_x, !.y = new_y]
          IN  undo' = Operated(undo, "move", "Moved widget",
                               IF sel.idx = 0 THEN undo.layout
                               ELSE [undo.layout EXCEPT ![sel.idx] = moved],
                               Some([idx |-> sel.idx, w |-> moved]))
    /\ UndoFrame

\* _duplicate_widget
EditorDuplicate ==
    /\ undo.ops < MaxOps
    /\ undo.selected # PyNone
    /\ LET sel == undo.selected[1]
           created == Construct(sel.w.cls, <<>>)
           new_x == Min2(sel.w.x + 10, EditorScreenSize - created.width)
           new_y == Min2(sel.w.y + 10, EditorScreenSize - created.height)
           new_widget == [created EXCEPT !.properties = sel.w.properties,
                                         !.x = new_x, !.y = new_y]
       IN  undo' = Operated(undo, "duplicate", "Duplicated widget",
                            add_widget(undo.layout, new_widget), undo.selected)
    /\ UndoFrame

\* _on_widget_list_select, and a canvas click on no widget
EditorSelect ==
    /\ \/ \E i \in 1 .. Len(undo.layout) :
             undo' = [undo EXCEPT !.last = "select",
                                  !.selected = Some([idx |-> i, w |-> undo.layout[i]]),
                                  !.expected = PyNone, !.pre = PreOf(undo)]
       \/ undo' = [undo EXCEPT !.last = "select", !.selected = PyNone,
                               !.expected = PyNone, !.pre = PreOf(undo)]
    /\ UndoFrame

\* What undo / redo leave of the selection: the object stays selected, while
\* the layout manager it belonged to is replaced
Stale(selected) ==
    IF selected = PyNone THEN PyNone ELSE Some([selected[1] EXCEPT !.idx = 0])

\* _undo
EditorUndo ==
    /\ LET r == UndoManager_undo(UndoManagerOf(undo))
       IN  undo' =
             IF r.operation = PyNone
             THEN [undo EXCEPT !.last = "undo_empty", !.expected = PyNone,
                               !.pre = PreOf(undo)]
             ELSE [undo EXCEPT
                     !.last = "undo",
                     !.layout = restore_layout(undo.layout, r.operation[1].state),
                     !.selected = Stale(@),
                     !.undo_stack = r.um.undo_stack, !.redo_stack = r.um.redo_stack,
                     !.g_undo = SubSeq(@, 1, Len(@) - 1),
                     !.g_redo = Append(@, undo.g_undo[Len(undo.g_undo)]),
                     !.expected = Some(undo.g_undo[Len(undo.g_undo)].before),
                     !.pre = PreOf(undo)]
    /\ UndoFrame

\* _redo
EditorRedo ==
    /\ LET r == UndoManager_redo(UndoManagerOf(undo))
       IN  undo' =
             IF r.operation = PyNone
             THEN [undo EXCEPT !.last = "redo_empty", !.expected = PyNone,
                               !.pre = PreOf(undo)]
             ELSE [undo EXCEPT
                     !.last = "redo",
                     !.layout = restore_layout(undo.layout, r.operation[1].state),
                     !.selected = Stale(@),
                     !.undo_stack = r.um.undo_stack, !.redo_stack = r.um.redo_stack,
                     !.g_redo = SubSeq(@, 1, Len(@) - 1),
                     !.g_undo = Append(@, undo.g_redo[Len(undo.g_redo)]),
                     !.expected = Some(undo.g_redo[Len(undo.g_redo)].after),
                     !.pre = PreOf(undo)]
    /\ UndoFrame

NextUndo ==
    \/ EditorAdd
    \/ EditorRemove
    \/ EditorMove
    \/ EditorDuplicate
    \/ EditorSelect
    \/ EditorUndo
    \/ EditorRedo

SpecUndo == InitUndo /\ [][NextUndo]_vars

EditorOperations == {"add", "remove", "move", "duplicate"}

\* C30: undo restores the layout from before the operation it undoes and
\* redo the layout from after the operation it redoes; undo or redo on an
\* empty stack changes neither the layout nor the stacks; every new
\* operation leaves the redo stack empty.
C30_UndoRedoRestore ==
    /\ undo.last \in {"undo", "redo"} => undo.layout = undo.expected[1]
    /\ undo.last \in {"undo_empty", "redo_empty"} => PreOf(undo) = undo.pre
    /\ undo.last \in EditorOperations => undo.redo_stack = <<>>

=============================================================================
